---------------------------- MODULE Spec2Model ----------------------------
(***************************************************************************)
(* FinanceTracker: the record store (users, categories, transactions,      *)
(* budgets, goals), the request handlers that read and write it, and the   *)
(* three calculators (budget status, goal progress, analytics).            *)
(*                                                                         *)
(* Money.  amount, limit_amount, target_amount and current_amount are      *)
(* Python floats.  The model takes whole currency units, which floats add  *)
(* and subtract exactly, and takes limits and targets for which no         *)
(* percentage lies exactly half way between two hundredths, where the      *)
(* float quotient's last bit would decide the rounding.                    *)
(*                                                                         *)
(* Percentages.  round(x, 2) yields a number with two decimals; the model  *)
(* holds it as the integer number of hundredths (50.0 is 5000).            *)
(*                                                                         *)
(* Strings that the code inspects character by character (dates, periods)  *)
(* are sequences of one-character strings; names are opaque strings.       *)
(*                                                                         *)
(* Callers.  Every handler starts by obtaining current_user from the       *)
(* request layer.  The model starts where current_user is known: a handler *)
(* takes the id u of the user the request is made for, and the requests    *)
(* the request layer turns away (401) are not in it.                       *)
(***************************************************************************)
EXTENDS Integers, Sequences, FiniteSets, TLC

(***************************************************************************)
(* Bounds of the model.                                                    *)
(***************************************************************************)
\* successful writes to the store in one behaviour of Spec
MaxWrites == 2
\* successful writes to the goals table in one behaviour of SpecGoals
MaxGoalWrites == 3
\* successful writes to the transactions in one behaviour of SpecAnalytics
MaxAnalyticsWrites == 1
\* successful writes to the store in one behaviour of SpecAccess
MaxAccessWrites == 1
\* successful writes to the store in one behaviour of SpecStore
MaxStoreWrites == 1
\* contributions committed in one behaviour of SpecRace
MaxRaceWrites == 3

None == "None"
NoDate == << >>

(***************************************************************************)
(* Python helpers, computed as Python computes them.                       *)
(***************************************************************************)
Digits == {"0", "1", "2", "3", "4", "5", "6", "7", "8", "9"}

\* ord() of the characters that occur in dates and periods
Ord(c) ==
    CASE c = " " -> 32 [] c = "+" -> 43 [] c = "-" -> 45
      [] c = "0" -> 48 [] c = "1" -> 49 [] c = "2" -> 50 [] c = "3" -> 51
      [] c = "4" -> 52 [] c = "5" -> 53 [] c = "6" -> 54 [] c = "7" -> 55
      [] c = "8" -> 56 [] c = "9" -> 57 [] OTHER -> 120

DigitChar(n) ==
    CASE n = 0 -> "0" [] n = 1 -> "1" [] n = 2 -> "2" [] n = 3 -> "3"
      [] n = 4 -> "4" [] n = 5 -> "5" [] n = 6 -> "6" [] n = 7 -> "7"
      [] n = 8 -> "8" [] OTHER -> "9"

\* str(d) of a datetime.date: "%04d-%02d-%02d"
DateStr(d) ==
    << DigitChar((d.y \div 1000) % 10), DigitChar((d.y \div 100) % 10),
       DigitChar((d.y \div 10) % 10), DigitChar(d.y % 10), "-",
       DigitChar((d.m \div 10) % 10), DigitChar(d.m % 10), "-",
       DigitChar((d.d \div 10) % 10), DigitChar(d.d % 10) >>

\* s.startswith(p)
StartsWith(s, p) == Len(p) <= Len(s) /\ SubSeq(s, 1, Len(p)) = p

\* s.split(sep) for a one-character separator
RECURSIVE SplitFrom(_, _, _, _)
SplitFrom(s, sep, i, cur) ==
    IF i > Len(s) THEN << cur >>
    ELSE IF s[i] = sep THEN << cur >> \o SplitFrom(s, sep, i + 1, << >>)
    ELSE SplitFrom(s, sep, i + 1, Append(cur, s[i]))

Split(s, sep) == SplitFrom(s, sep, 1, << >>)

\* s.strip() for the blank
RECURSIVE LStrip(_)
LStrip(s) == IF s # << >> /\ Head(s) = " " THEN LStrip(Tail(s)) ELSE s

RECURSIVE RStrip(_)
RStrip(s) ==
    IF s # << >> /\ s[Len(s)] = " " THEN RStrip(SubSeq(s, 1, Len(s) - 1)) ELSE s

\* whether int(s) returns (TRUE) or raises ValueError (FALSE): blanks around,
\* an optional sign, then decimal digits
IntParses(s) ==
    LET t == RStrip(LStrip(s))
        u == IF t # << >> /\ Head(t) \in {"+", "-"} THEN Tail(t) ELSE t
    IN  u # << >> /\ \A i \in 1..Len(u) : u[i] \in Digits

\* round(n / d) to the nearest integer, ties to even (Python 3's round), d > 0
RoundDiv(n, d) ==
    LET q == n \div d
        r == n % d
    IN  IF 2 * r < d THEN q
        ELSE IF 2 * r > d THEN q + 1
        ELSE IF q % 2 = 0 THEN q ELSE q + 1

\* round(a / b * 100, 2) in hundredths, for a >= 0 and b > 0; the quotient is
\* taken in three steps so that no intermediate product leaves 32 bits
Percent2(a, b) ==
    LET q0 == a \div b
        x1 == 100 * (a % b)
        q1 == x1 \div b
        x2 == 100 * (x1 % b)
    IN  10000 * q0 + 100 * q1 + RoundDiv(x2, b)

Max(S) == CHOOSE x \in S : \A y \in S : y <= x

Max2(a, b) == IF a >= b THEN a ELSE b

RECURSIVE SortedSeq(_)
SortedSeq(S) ==
    IF S = {} THEN << >>
    ELSE LET m == CHOOSE x \in S : \A y \in S : x <= y
         IN  << m >> \o SortedSeq(S \ {m})

(***************************************************************************)
(* The record store.  Each table is a function from the ids in use to the  *)
(* row's columns.                                                          *)
(***************************************************************************)
VARIABLES users, categories, transactions, budgets, goals, resp, writes,
          sessions

vars ==
    << users, categories, transactions, budgets, goals, resp, writes,
       sessions >>

store == << users, categories, transactions, budgets, goals >>

\* The server processes that share the database file.  sessions[w] is the
\* database session of the contribution that process w is serving or has
\* last served: the goal it names, the amount of the request, the
\* current_amount the session's query loaded, and how far
\* utils.contribute_to_goal has come.  A handler that runs from its first
\* line to its response while no other is in flight leaves sessions alone.
Workers == {"w1", "w2"}

NoSession == [phase |-> "none", goal_id |-> 0, amount |-> 0, loaded |-> 0]

\* INTEGER PRIMARY KEY: one more than the largest id in use
NextId(ids) == IF ids = {} THEN 1 ELSE Max(ids) + 1

Insert(table, id, row) ==
    [i \in DOMAIN table \cup {id} |-> IF i = id THEN row ELSE table[i]]

Remove(table, ids) == [i \in DOMAIN table \ ids |-> table[i]]

Response(op, status, body) == [op |-> op, status |-> status, body |-> body]

Detail(text) == [detail |-> text]

(***************************************************************************)
(* No handler reads resp: two states that differ only in resp have the     *)
(* same successors.  The model takes the successors of one of them, the    *)
(* state as start-up or a successful write left it; the responses of the   *)
(* reads and of the refused requests are all reached from there.           *)
(***************************************************************************)
WriteOps ==
    {"startup", "create_new_category", "update_category_by_id",
     "delete_category_by_id", "add_income", "add_expense",
     "delete_transaction_by_id", "create_new_budget", "delete_budget_by_id",
     "create_financial_goal", "contribute_to_financial_goal",
     "delete_financial_goal", "delete_current_user"}

AfterWrite == resp.op \in WriteOps /\ resp.status < 400

category_to_dict(id) ==
    [id |-> id, user_id |-> categories[id].user_id,
     name |-> categories[id].name, type |-> categories[id].type]

\* the dict of row id of a transaction table
TransactionRow(table, id) ==
    [id |-> id, user_id |-> table[id].user_id,
     category_id |-> table[id].category_id,
     amount |-> table[id].amount, type |-> table[id].type,
     transaction_date |-> table[id].transaction_date]

transaction_to_dict(id) == TransactionRow(transactions, id)

\* the dict of row id of a budget table
BudgetRow(table, id) ==
    [id |-> id, user_id |-> table[id].user_id,
     category_id |-> table[id].category_id,
     limit_amount |-> table[id].limit_amount, period |-> table[id].period]

budget_to_dict(id) == BudgetRow(budgets, id)

\* the dict of row id of a goal table
GoalRow(table, id) ==
    [id |-> id, user_id |-> table[id].user_id, name |-> table[id].name,
     target_amount |-> table[id].target_amount,
     current_amount |-> table[id].current_amount,
     target_date |-> table[id].target_date]

goal_to_dict(id) == GoalRow(goals, id)

\* the query without the newest row, as a reader of a stale snapshot sees it
query_user_transactions_Stale(table, user_id) ==
    LET all == {i \in DOMAIN table : table[i].user_id = user_id}
        ids == SortedSeq(IF all = {} THEN {} ELSE all \ {Max(DOMAIN table)})
    IN  [k \in 1..Len(ids) |-> TransactionRow(table, ids[k])]

\* the rows of a user in a transaction table, in id order
query_user_transactions(table, user_id) ==
    LET ids == SortedSeq({i \in DOMAIN table : table[i].user_id = user_id})
    IN  [k \in 1..Len(ids) |-> TransactionRow(table, ids[k])]

get_user_transactions(user_id) ==
    query_user_transactions(transactions, user_id)

\* the rows of a user in a budget table, in id order
query_user_budgets(table, user_id) ==
    LET ids == SortedSeq({i \in DOMAIN table : table[i].user_id = user_id})
    IN  [k \in 1..Len(ids) |-> BudgetRow(table, ids[k])]

get_user_budgets(user_id) == query_user_budgets(budgets, user_id)

\* a query that returns the goals of every user
query_user_goals_Everyone(table, user_id) ==
    LET ids == SortedSeq(DOMAIN table)
    IN  [k \in 1..Len(ids) |-> GoalRow(table, ids[k])]

\* the rows of a user in a goal table, in id order
query_user_goals(table, user_id) ==
    LET ids == SortedSeq({i \in DOMAIN table : table[i].user_id = user_id})
    IN  [k \in 1..Len(ids) |-> GoalRow(table, ids[k])]

get_user_goals(user_id) == query_user_goals(goals, user_id)

(***************************************************************************)
(* The state the behaviours start in.  At start-up init_test_data loads    *)
(* the test user (1) with three categories, three transactions, one budget *)
(* and one goal; since then a second user (2) has registered, created the  *)
(* expense category 4 and recorded one expense in it.                      *)
(***************************************************************************)
Init ==
    /\ users = {1, 2}
    /\ categories =
         << [user_id |-> 1, name |-> "Salary", type |-> "income"],
            [user_id |-> 1, name |-> "Groceries", type |-> "expense"],
            [user_id |-> 1, name |-> "Transport", type |-> "expense"],
            [user_id |-> 2, name |-> "Rent", type |-> "expense"] >>
    /\ transactions =
         << [user_id |-> 1, category_id |-> 1, amount |-> 50000,
             type |-> "income",
             transaction_date |-> DateStr([y |-> 2024, m |-> 1, d |-> 15])],
            [user_id |-> 1, category_id |-> 2, amount |-> 5000,
             type |-> "expense",
             transaction_date |-> DateStr([y |-> 2024, m |-> 1, d |-> 16])],
            [user_id |-> 1, category_id |-> 3, amount |-> 1500,
             type |-> "expense",
             transaction_date |-> DateStr([y |-> 2024, m |-> 1, d |-> 17])],
            [user_id |-> 2, category_id |-> 4, amount |-> 700,
             type |-> "expense",
             transaction_date |-> DateStr([y |-> 2024, m |-> 1, d |-> 16])] >>
    /\ budgets =
         << [user_id |-> 1, category_id |-> 2, limit_amount |-> 10000,
             period |-> << "2", "0", "2", "4", "-", "0", "1" >>] >>
    /\ goals =
         << [user_id |-> 1, name |-> "Vacation",
             target_amount |-> 100000, current_amount |-> 0,
             target_date |-> DateStr([y |-> 2024, m |-> 12, d |-> 31])] >>
    /\ resp = Response("startup", 0, Detail("ready"))
    /\ writes = 0
    /\ sessions = [w \in Workers |-> NoSession]


(***************************************************************************)
(* What requests carry.                                                    *)
(***************************************************************************)
CategoryTypes == {"income", "expense"}

CategoryNames == {"Misc"}

\* CategoryUpdate: each field is optional
CategoryUpdates ==
    {[name |-> n, type |-> t] : n \in CategoryNames \cup {None},
                                t \in CategoryTypes \cup {None}}

\* TransactionCreate, without the category id
TransactionInputs ==
    {[amount |-> p[1], type |-> t, transaction_date |-> p[2]] :
        p \in {<< 5000, [y |-> 2024, m |-> 1, d |-> 31] >>,
               << 30001, [y |-> 2024, m |-> 2, d |-> 1] >>,
               << 0, [y |-> 2024, m |-> 1, d |-> 31] >>},
        t \in CategoryTypes}

Limits == {30000, 0}

Periods ==
    { << "2", "0", "2", "4", "-", "0", "1" >>,
      << "2", "0", "2", "4", "-", "0", "2" >>,
      << "2", "0", "2", "4", "-", "1" >> }

\* the periods a budget is asked for where the period check is watched: those
\* above, and one whose year is a sign and three digits
BudgetPeriods == Periods \cup { << "+", "0", "2", "4", "-", "0", "1" >> }

\* an id a request may name: one in use, or the first one that is not
RequestIds(table) == 1..NextId(DOMAIN table)

\* the bodies posted while the analytics are watched: a large expense or income
\* dated before every seeded transaction, a small one dated on the last
AnalyticsInputs ==
    {[amount |-> p[1], type |-> t, transaction_date |-> p[2]] :
        p \in {<< 5000, [y |-> 2024, m |-> 1, d |-> 10] >>,
               << 1, [y |-> 2024, m |-> 1, d |-> 17] >>},
        t \in CategoryTypes}

\* start_date and end_date of an analytics request: absent, empty, or a date
StartDates ==
    {<< >>, << << >> >>, << DateStr([y |-> 2024, m |-> 1, d |-> 16]) >>}

EndDates ==
    {<< >>, << << >> >>, << DateStr([y |-> 2024, m |-> 1, d |-> 16]) >>,
     << DateStr([y |-> 2024, m |-> 1, d |-> 10]) >>}

(***************************************************************************)
(* Budget status calculator (routes/budget.py).                            *)
(***************************************************************************)
\* the match without its test of the transaction's type
BudgetTxMatches_AnyType(t, budget) ==
    /\ t.category_id = budget.category_id
    /\ StartsWith(t.transaction_date, budget.period)

BudgetTxMatches(t, budget) ==
    /\ t.category_id = budget.category_id
    /\ t.type = "expense"
    /\ StartsWith(t.transaction_date, budget.period)

\* the loop over the user's transactions, from row i on, spent_amount so far acc
RECURSIVE SpentLoop(_, _, _, _)
SpentLoop(txs, budget, i, acc) ==
    IF i > Len(txs) THEN acc
    ELSE SpentLoop(txs, budget, i + 1,
                   IF BudgetTxMatches(txs[i], budget) THEN acc + txs[i].amount
                   ELSE acc)

\* the percentage cut to two decimals instead of rounded
BudgetPercentage_Truncated(spent_amount, limit_amount) ==
    IF limit_amount > 0
    THEN 10000 * (spent_amount \div limit_amount)
           + (10000 * (spent_amount % limit_amount)) \div limit_amount
    ELSE 0

BudgetPercentage(spent_amount, limit_amount) ==
    IF limit_amount > 0 THEN Percent2(spent_amount, limit_amount) ELSE 0

\* the remainder floored at zero, as the goal calculator floors its own
BudgetRemaining_Floored(spent_amount, limit_amount) ==
    Max2(0, limit_amount - spent_amount)

BudgetRemaining(spent_amount, limit_amount) == limit_amount - spent_amount

\* the name the status carries for the budget's category
BudgetCategoryName(table, category_id) ==
    IF category_id \in DOMAIN table THEN table[category_id].name
    ELSE "Unknown"

\* the status built from the rows the two queries returned
BudgetStatus(budget, category_name, user_transactions) ==
    LET spent_amount == SpentLoop(user_transactions, budget, 1, 0)
    IN  [id |-> budget.id, user_id |-> budget.user_id,
         category_id |-> budget.category_id,
         limit_amount |-> budget.limit_amount, period |-> budget.period,
         category_name |-> category_name,
         spent_amount |-> spent_amount,
         remaining_amount |-> BudgetRemaining(spent_amount, budget.limit_amount),
         percentage_used |-> BudgetPercentage(spent_amount, budget.limit_amount)]

calculate_budget_status(budget, user_id) ==
    BudgetStatus(budget, BudgetCategoryName(categories, budget.category_id),
                 get_user_transactions(user_id))

\* the period check of create_new_budget: TRUE when no ValueError is raised
PeriodAccepted(period) ==
    LET parts == Split(period, "-")
    IN  /\ Len(parts) = 2
        /\ Len(parts[1]) = 4
        /\ Len(parts[2]) = 2
        /\ IntParses(parts[1])
        /\ IntParses(parts[2])

\* list.sort(key = percentage_used, reverse = True): stable, descending
RECURSIVE InsertDesc(_, _)
InsertDesc(sorted, x) ==
    IF sorted = << >> THEN << x >>
    ELSE IF Head(sorted).percentage_used >= x.percentage_used
         THEN << Head(sorted) >> \o InsertDesc(Tail(sorted), x)
         ELSE << x >> \o sorted

RECURSIVE SortDesc(_)
SortDesc(s) ==
    IF s = << >> THEN << >>
    ELSE InsertDesc(SortDesc(SubSeq(s, 1, Len(s) - 1)), s[Len(s)])

(***************************************************************************)
(* The account handler (routes/auth.py).                                   *)
(***************************************************************************)
\* a relationship without the cascade: the rows stay
owned_rows_deleted_Kept(table, user_id) == table

\* cascade = "all, delete-orphan" of User.categories, User.transactions,
\* User.budgets and User.goals: the rows of the user go with the user
owned_rows_deleted(table, user_id) ==
    Remove(table, {i \in DOMAIN table : table[i].user_id = user_id})

\* the rows that go with a deleted category (Category.transactions,
\* Category.budgets)
category_rows_deleted(table, category_ids) ==
    Remove(table, {i \in DOMAIN table : table[i].category_id \in category_ids})

\* utils.delete_user behind DELETE /auth/me; current_user is a stored user
delete_current_user(u) ==
    /\ AfterWrite
    /\ UNCHANGED sessions
    /\ writes < MaxWrites
    /\ u \in users
    /\ LET gone == {c \in DOMAIN categories : categories[c].user_id = u}
       IN  /\ users' = users \ {u}
           /\ categories' = owned_rows_deleted(categories, u)
           /\ transactions' =
                category_rows_deleted(owned_rows_deleted(transactions, u), gone)
           /\ budgets' =
                category_rows_deleted(owned_rows_deleted(budgets, u), gone)
           /\ goals' = owned_rows_deleted(goals, u)
    /\ resp' = Response("delete_current_user", 200, Detail("deleted"))
    /\ writes' = writes + 1

(***************************************************************************)
(* Category and transaction handlers (routes/transaction.py).              *)
(***************************************************************************)
create_new_category(u, name, type) ==
    /\ AfterWrite
    /\ UNCHANGED sessions
    /\ writes < MaxWrites
    /\ LET id == NextId(DOMAIN categories)
       IN  /\ categories' =
                Insert(categories, id,
                       [user_id |-> u, name |-> name, type |-> type])
           /\ resp' = Response("create_new_category", 201,
                               [id |-> id, user_id |-> u, name |-> name,
                                type |-> type])
    /\ writes' = writes + 1
    /\ UNCHANGED << users, transactions, budgets, goals >>

\* utils.update_category: every field given (not None) is set
update_category(row, update) ==
    [row EXCEPT !.name = IF update.name # None THEN update.name ELSE @,
                !.type = IF update.type # None THEN update.type ELSE @]

\* an update that carries the category's new type over to its transactions
update_category_by_id_Retyping(u, category_id, update) ==
    /\ AfterWrite
    /\ UNCHANGED sessions
    /\ writes < MaxWrites
    /\ category_id \in DOMAIN categories
    /\ categories[category_id].user_id = u
    /\ categories' =
         [categories EXCEPT ![category_id] = update_category(@, update)]
    /\ transactions' =
         [t \in DOMAIN transactions |->
            IF transactions[t].category_id = category_id
            THEN [transactions[t] EXCEPT
                    !.type = categories'[category_id].type]
            ELSE transactions[t]]
    /\ resp' = Response("update_category_by_id", 200,
                        [id |-> category_id, user_id |-> u,
                         name |-> categories'[category_id].name,
                         type |-> categories'[category_id].type])
    /\ writes' = writes + 1
    /\ UNCHANGED << users, budgets, goals >>

update_category_by_id(u, category_id, update) ==
    /\ AfterWrite
    /\ UNCHANGED sessions
    /\ writes < MaxWrites
    /\ IF category_id \notin DOMAIN categories
       THEN /\ resp' = Response("update_category_by_id", 404, Detail("category"))
            /\ UNCHANGED << categories, writes >>
       ELSE IF categories[category_id].user_id # u
       THEN /\ resp' = Response("update_category_by_id", 403, Detail("category"))
            /\ UNCHANGED << categories, writes >>
       ELSE /\ categories' =
                 [categories EXCEPT
                    ![category_id] = update_category(@, update)]
            /\ resp' = Response("update_category_by_id", 200,
                                [id |-> category_id, user_id |-> u,
                                 name |-> categories'[category_id].name,
                                 type |-> categories'[category_id].type])
            /\ writes' = writes + 1
    /\ UNCHANGED << users, transactions, budgets, goals >>

\* a deletion that removes the category row and leaves the rows that
\* reference it
delete_category_by_id_NoCascade(u, category_id) ==
    /\ AfterWrite
    /\ UNCHANGED sessions
    /\ writes < MaxWrites
    /\ IF category_id \notin DOMAIN categories
       THEN /\ resp' = Response("delete_category_by_id", 404, Detail("category"))
            /\ UNCHANGED << categories, writes >>
       ELSE IF categories[category_id].user_id # u
       THEN /\ resp' = Response("delete_category_by_id", 403, Detail("category"))
            /\ UNCHANGED << categories, writes >>
       ELSE /\ categories' = Remove(categories, {category_id})
            /\ resp' = Response("delete_category_by_id", 200,
                                [id |-> category_id])
            /\ writes' = writes + 1
    /\ UNCHANGED << users, transactions, budgets, goals >>

\* utils.delete_category: the row, and by the relationships' cascade the
\* transactions and budgets that reference it
delete_category_by_id(u, category_id) ==
    /\ AfterWrite
    /\ UNCHANGED sessions
    /\ writes < MaxWrites
    /\ IF category_id \notin DOMAIN categories
       THEN /\ resp' = Response("delete_category_by_id", 404, Detail("category"))
            /\ UNCHANGED << categories, transactions, budgets, writes >>
       ELSE IF categories[category_id].user_id # u
       THEN /\ resp' = Response("delete_category_by_id", 403, Detail("category"))
            /\ UNCHANGED << categories, transactions, budgets, writes >>
       ELSE /\ categories' = Remove(categories, {category_id})
            /\ transactions' =
                 Remove(transactions,
                        {i \in DOMAIN transactions :
                           transactions[i].category_id = category_id})
            /\ budgets' =
                 Remove(budgets,
                        {i \in DOMAIN budgets :
                           budgets[i].category_id = category_id})
            /\ resp' = Response("delete_category_by_id", 200,
                                [id |-> category_id])
            /\ writes' = writes + 1
    /\ UNCHANGED << users, goals >>

\* a handler that stores the transaction without looking at its type
add_transaction_AnyType(op, wanted, u, category_id, data) ==
    /\ AfterWrite
    /\ UNCHANGED sessions
    /\ writes < MaxWrites
    /\ IF ~(data.amount > 0)
       THEN /\ resp' = Response(op, 422, Detail("amount"))
            /\ UNCHANGED << transactions, writes >>
       ELSE IF category_id \notin DOMAIN categories
       THEN /\ resp' = Response(op, 404, Detail("category"))
            /\ UNCHANGED << transactions, writes >>
       ELSE IF categories[category_id].user_id # u
       THEN /\ resp' = Response(op, 403, Detail("category"))
            /\ UNCHANGED << transactions, writes >>
       ELSE /\ transactions' =
                 Insert(transactions, NextId(DOMAIN transactions),
                        [user_id |-> u, category_id |-> category_id,
                         amount |-> data.amount, type |-> data.type,
                         transaction_date |-> DateStr(data.transaction_date)])
            /\ resp' = Response(op, 201,
                                [id |-> NextId(DOMAIN transactions),
                                 user_id |-> u, category_id |-> category_id,
                                 amount |-> data.amount, type |-> data.type,
                                 transaction_date |->
                                     DateStr(data.transaction_date),
                                 category_name |->
                                     categories[category_id].name])
            /\ writes' = writes + 1
    /\ UNCHANGED << users, categories, budgets, goals >>

\* add_income and add_expense differ in the type they demand; TransactionCreate
\* is validated (amount > 0) before the handler runs
add_transaction(op, wanted, u, category_id, data) ==
    /\ AfterWrite
    /\ UNCHANGED sessions
    /\ writes < MaxWrites
    /\ IF ~(data.amount > 0)
       THEN /\ resp' = Response(op, 422, Detail("amount"))
            /\ UNCHANGED << transactions, writes >>
       ELSE IF category_id \notin DOMAIN categories
       THEN /\ resp' = Response(op, 404, Detail("category"))
            /\ UNCHANGED << transactions, writes >>
       ELSE IF categories[category_id].user_id # u
       THEN /\ resp' = Response(op, 403, Detail("category"))
            /\ UNCHANGED << transactions, writes >>
       ELSE IF data.type # wanted
       THEN /\ resp' = Response(op, 400, Detail("type"))
            /\ UNCHANGED << transactions, writes >>
       ELSE LET id == NextId(DOMAIN transactions)
                row == [user_id |-> u, category_id |-> category_id,
                        amount |-> data.amount, type |-> data.type,
                        transaction_date |-> DateStr(data.transaction_date)]
            IN  /\ transactions' = Insert(transactions, id, row)
                /\ resp' = Response(op, 201,
                                    [id |-> id, user_id |-> u,
                                     category_id |-> category_id,
                                     amount |-> row.amount, type |-> row.type,
                                     transaction_date |-> row.transaction_date,
                                     category_name |->
                                         categories[category_id].name])
                /\ writes' = writes + 1
    /\ UNCHANGED << users, categories, budgets, goals >>

add_income(u, category_id, data) ==
    add_transaction("add_income", "income", u, category_id, data)

add_expense(u, category_id, data) ==
    add_transaction("add_expense", "expense", u, category_id, data)

delete_transaction_by_id(u, transaction_id) ==
    /\ AfterWrite
    /\ UNCHANGED sessions
    /\ writes < MaxWrites
    /\ IF transaction_id \notin DOMAIN transactions
       THEN /\ resp' = Response("delete_transaction_by_id", 404,
                                Detail("transaction"))
            /\ UNCHANGED << transactions, writes >>
       ELSE IF transactions[transaction_id].user_id # u
       THEN /\ resp' = Response("delete_transaction_by_id", 403,
                                Detail("transaction"))
            /\ UNCHANGED << transactions, writes >>
       ELSE /\ transactions' = Remove(transactions, {transaction_id})
            /\ resp' = Response("delete_transaction_by_id", 200,
                                transaction_to_dict(transaction_id))
            /\ writes' = writes + 1
    /\ UNCHANGED << users, categories, budgets, goals >>

\* what get_category_by_id_endpoint answers to user u in the current state
get_category_by_id_endpoint_response(u, category_id) ==
    IF category_id \notin DOMAIN categories
    THEN Response("get_category_by_id_endpoint", 404, Detail("category"))
    ELSE IF categories[category_id].user_id # u
    THEN Response("get_category_by_id_endpoint", 403, Detail("category"))
    ELSE Response("get_category_by_id_endpoint", 200,
                  [id |-> category_id, user_id |-> u,
                   name |-> categories[category_id].name,
                   type |-> categories[category_id].type])

get_category_by_id_endpoint(u, category_id) ==
    /\ AfterWrite
    /\ UNCHANGED sessions
    /\ resp' = get_category_by_id_endpoint_response(u, category_id)
    /\ UNCHANGED << store, writes >>

\* what get_transaction answers to user u in the current state
get_transaction_response(u, transaction_id) ==
    IF transaction_id \notin DOMAIN transactions
    THEN Response("get_transaction", 404, Detail("transaction"))
    ELSE IF transactions[transaction_id].user_id # u
    THEN Response("get_transaction", 403, Detail("transaction"))
    ELSE LET c == transactions[transaction_id].category_id
         IN  Response("get_transaction", 200,
               [transaction |-> transaction_to_dict(transaction_id),
                category_name |-> IF c \in DOMAIN categories
                                  THEN categories[c].name ELSE None])

get_transaction(u, transaction_id) ==
    /\ AfterWrite
    /\ UNCHANGED sessions
    /\ resp' = get_transaction_response(u, transaction_id)
    /\ UNCHANGED << store, writes >>

(***************************************************************************)
(* Budget handlers (routes/budget.py).                                     *)
(***************************************************************************)
create_new_budget(u, category_id, limit_amount, period) ==
    /\ AfterWrite
    /\ UNCHANGED sessions
    /\ writes < MaxWrites
    /\ IF ~(limit_amount > 0)
       THEN /\ resp' = Response("create_new_budget", 422, Detail("limit_amount"))
            /\ UNCHANGED << budgets, writes >>
       ELSE IF category_id \notin DOMAIN categories
       THEN /\ resp' = Response("create_new_budget", 404, Detail("category"))
            /\ UNCHANGED << budgets, writes >>
       ELSE IF categories[category_id].user_id # u
       THEN /\ resp' = Response("create_new_budget", 403, Detail("category"))
            /\ UNCHANGED << budgets, writes >>
       ELSE IF categories[category_id].type # "expense"
       THEN /\ resp' = Response("create_new_budget", 400, Detail("type"))
            /\ UNCHANGED << budgets, writes >>
       ELSE IF ~PeriodAccepted(period)
       THEN /\ resp' = Response("create_new_budget", 400, Detail("period"))
            /\ UNCHANGED << budgets, writes >>
       ELSE LET id == NextId(DOMAIN budgets)
                row == [user_id |-> u, category_id |-> category_id,
                        limit_amount |-> limit_amount, period |-> period]
            IN  /\ budgets' = Insert(budgets, id, row)
                /\ resp' = Response("create_new_budget", 201,
                                    calculate_budget_status(
                                        [id |-> id, user_id |-> u,
                                         category_id |-> category_id,
                                         limit_amount |-> limit_amount,
                                         period |-> period], u))
                /\ writes' = writes + 1
    /\ UNCHANGED << users, categories, transactions, goals >>

\* what get_budget_status answers to user u from the given tables
budget_status_of(cats, txs, buds, u) ==
    LET bs == query_user_budgets(buds, u)
        statuses ==
            [k \in 1..Len(bs) |->
                BudgetStatus(bs[k],
                             BudgetCategoryName(cats, bs[k].category_id),
                             query_user_transactions(txs, u))]
    IN  Response("get_budget_status", 200, [items |-> SortDesc(statuses)])

\* what get_budget_status answers to user u in the current state
get_budget_status_response(u) ==
    budget_status_of(categories, transactions, budgets, u)

\* a status query that drops the caller's budgets on which nothing is spent
get_budget_status_Pruning(u) ==
    /\ AfterWrite
    /\ UNCHANGED sessions
    /\ resp' = get_budget_status_response(u)
    /\ budgets' =
         Remove(budgets,
                {b \in DOMAIN budgets :
                   /\ budgets[b].user_id = u
                   /\ calculate_budget_status(budget_to_dict(b), u).spent_amount
                        = 0})
    /\ UNCHANGED << users, categories, transactions, goals, writes >>

get_budget_status(u) ==
    /\ AfterWrite
    /\ UNCHANGED sessions
    /\ resp' = get_budget_status_response(u)
    /\ UNCHANGED << store, writes >>

\* what get_budget_by_id answers to user u from the given tables
budget_by_id_of(cats, txs, buds, u, budget_id) ==
    IF \E k \in DOMAIN query_user_budgets(buds, u) :
          query_user_budgets(buds, u)[k].id = budget_id
    THEN Response("get_budget_by_id", 200,
                  BudgetStatus(BudgetRow(buds, budget_id),
                               BudgetCategoryName(
                                   cats, buds[budget_id].category_id),
                               query_user_transactions(txs, u)))
    ELSE Response("get_budget_by_id", 404, Detail("budget"))

\* what get_budget_by_id answers to user u in the current state
get_budget_by_id_response(u, budget_id) ==
    budget_by_id_of(categories, transactions, budgets, u, budget_id)

get_budget_by_id(u, budget_id) ==
    /\ AfterWrite
    /\ UNCHANGED sessions
    /\ resp' = get_budget_by_id_response(u, budget_id)
    /\ UNCHANGED << store, writes >>

delete_budget_by_id(u, budget_id) ==
    /\ AfterWrite
    /\ UNCHANGED sessions
    /\ writes < MaxWrites
    /\ IF \E k \in DOMAIN get_user_budgets(u) :
             get_user_budgets(u)[k].id = budget_id
       THEN /\ budgets' = Remove(budgets, {budget_id})
            /\ resp' = Response("delete_budget_by_id", 200, [id |-> budget_id])
            /\ writes' = writes + 1
       ELSE /\ resp' = Response("delete_budget_by_id", 404, Detail("budget"))
            /\ UNCHANGED << budgets, writes >>
    /\ UNCHANGED << users, categories, transactions, goals >>

(***************************************************************************)
(* Goal progress calculator and goal handlers (routes/goals.py).           *)
(***************************************************************************)
GoalNames == {"Car"}

Targets == {30000, 0}

GoalDates == {NoDate, DateStr([y |-> 2025, m |-> 6, d |-> 30])}

ContributionAmounts == {25000, 40, -25000}

\* GoalUpdate: each field is optional; an optional number is << >> (None) or
\* << x >>
GoalUpdates ==
    {[name |-> n, target_amount |-> t, target_date |-> d] :
        n \in {None, "Boat"}, t \in {<< >>, << 50000 >>},
        d \in {NoDate, DateStr([y |-> 2026, m |-> 1, d |-> 1])}}

\* the percentage held at 100 once the target is reached
GoalProgressPercentage_Capped(current_amount, target_amount) ==
    IF target_amount > 0
    THEN IF current_amount >= target_amount THEN 10000
         ELSE Percent2(current_amount, target_amount)
    ELSE 0

GoalProgressPercentage(current_amount, target_amount) ==
    IF target_amount > 0 THEN Percent2(current_amount, target_amount) ELSE 0

\* the remainder without its floor
GoalRemaining_Signed(current_amount, target_amount) ==
    target_amount - current_amount

GoalRemaining(current_amount, target_amount) ==
    Max2(0, target_amount - current_amount)

calculate_goal_progress(goal) ==
    [id |-> goal.id, user_id |-> goal.user_id, name |-> goal.name,
     target_amount |-> goal.target_amount,
     current_amount |-> goal.current_amount,
     target_date |-> goal.target_date,
     progress_percentage |->
         GoalProgressPercentage(goal.current_amount, goal.target_amount),
     remaining_amount |->
         GoalRemaining(goal.current_amount, goal.target_amount)]

\* list.sort(key = progress_percentage): stable, ascending
RECURSIVE InsertAsc(_, _)
InsertAsc(sorted, x) ==
    IF sorted = << >> THEN << x >>
    ELSE IF Head(sorted).progress_percentage <= x.progress_percentage
         THEN << Head(sorted) >> \o InsertAsc(Tail(sorted), x)
         ELSE << x >> \o sorted

RECURSIVE SortAsc(_)
SortAsc(s) ==
    IF s = << >> THEN << >>
    ELSE InsertAsc(SortAsc(SubSeq(s, 1, Len(s) - 1)), s[Len(s)])

\* a request model that accepts every amount
GoalContributeValid_Any(amount) == TRUE

\* GoalContribute: amount is a float > 0, or the request is refused (422)
\* before the handler runs
GoalContributeValid(amount) == amount > 0

\* a lookup that answers an absent id with an empty goal of the first user
get_goal_by_id_Default(goal_id) ==
    IF goal_id \in DOMAIN goals THEN << goal_to_dict(goal_id) >>
    ELSE << [id |-> goal_id, user_id |-> 1, name |-> "",
             target_amount |-> 0, current_amount |-> 0,
             target_date |-> NoDate] >>

\* Optional[dict]: << >> is None, << goal >> the goal's dictionary
get_goal_by_id(goal_id) ==
    IF goal_id \in DOMAIN goals THEN << goal_to_dict(goal_id) >> ELSE << >>

\* a contribution that replaces the amount instead of adding to it
contribute_to_goal_Overwrite(table, goal_id, amount) ==
    IF goal_id \in DOMAIN table
    THEN [table EXCEPT ![goal_id].current_amount = amount]
    ELSE table

\* utils.contribute_to_goal: the table after the call; nothing is committed
\* when the goal is absent (the call returns None)
contribute_to_goal(table, goal_id, amount) ==
    IF goal_id \in DOMAIN table
    THEN [table EXCEPT ![goal_id].current_amount = @ + amount]
    ELSE table

\* GoalCreate is validated (target_amount > 0) before the handler runs
create_financial_goal(u, name, target_amount, target_date) ==
    /\ AfterWrite
    /\ UNCHANGED sessions
    /\ writes < MaxGoalWrites
    /\ IF ~(target_amount > 0)
       THEN /\ resp' = Response("create_financial_goal", 422,
                                Detail("target_amount"))
            /\ UNCHANGED << goals, writes >>
       ELSE LET id == NextId(DOMAIN goals)
                row == [user_id |-> u, name |-> name,
                        target_amount |-> target_amount, current_amount |-> 0,
                        target_date |-> target_date]
            IN  /\ goals' = Insert(goals, id, row)
                /\ resp' = Response("create_financial_goal", 201,
                                    calculate_goal_progress(
                                        [id |-> id, user_id |-> u,
                                         name |-> name,
                                         target_amount |-> target_amount,
                                         current_amount |-> 0,
                                         target_date |-> target_date]))
                /\ writes' = writes + 1
    /\ UNCHANGED << users, categories, transactions, budgets >>

\* what get_goals_progress answers to user u from the given table
goals_progress_of(gls, u) ==
    LET gs == query_user_goals(gls, u)
        progress == [k \in 1..Len(gs) |-> calculate_goal_progress(gs[k])]
    IN  Response("get_goals_progress", 200, [items |-> SortAsc(progress)])

\* what get_goals_progress answers to user u in the current state
get_goals_progress_response(u) == goals_progress_of(goals, u)

get_goals_progress(u) ==
    /\ AfterWrite
    /\ UNCHANGED sessions
    /\ resp' = get_goals_progress_response(u)
    /\ UNCHANGED << store, writes >>

\* what get_goal_by_id_endpoint answers to user u from the given table
goal_by_id_of(gls, u, goal_id) ==
    IF goal_id \notin DOMAIN gls
    THEN Response("get_goal_by_id_endpoint", 404, Detail("goal"))
    ELSE IF gls[goal_id].user_id # u
    THEN Response("get_goal_by_id_endpoint", 403, Detail("goal"))
    ELSE Response("get_goal_by_id_endpoint", 200,
                  calculate_goal_progress(GoalRow(gls, goal_id)))

\* what get_goal_by_id_endpoint answers to user u in the current state
get_goal_by_id_response(u, goal_id) == goal_by_id_of(goals, u, goal_id)

get_goal_by_id_endpoint(u, goal_id) ==
    /\ AfterWrite
    /\ UNCHANGED sessions
    /\ resp' = get_goal_by_id_response(u, goal_id)
    /\ UNCHANGED << store, writes >>

contribute_to_financial_goal(u, goal_id, amount) ==
    /\ AfterWrite
    /\ UNCHANGED sessions
    /\ writes < MaxGoalWrites
    /\ IF ~GoalContributeValid(amount)
       THEN /\ resp' = Response("contribute_to_financial_goal", 422,
                                Detail("amount"))
            /\ UNCHANGED << goals, writes >>
       ELSE IF get_goal_by_id(goal_id) = << >>
       THEN /\ resp' = Response("contribute_to_financial_goal", 404,
                                Detail("goal"))
            /\ UNCHANGED << goals, writes >>
       ELSE IF get_goal_by_id(goal_id)[1].user_id # u
       THEN /\ resp' = Response("contribute_to_financial_goal", 403,
                                Detail("goal"))
            /\ UNCHANGED << goals, writes >>
       ELSE IF goal_id \notin DOMAIN goals
       THEN /\ resp' = Response("contribute_to_financial_goal", 500,
                                Detail("contribute"))
            /\ UNCHANGED << goals, writes >>
       ELSE /\ goals' = contribute_to_goal(goals, goal_id, amount)
            /\ resp' = Response("contribute_to_financial_goal", 200,
                                calculate_goal_progress(
                                    [id |-> goal_id,
                                     user_id |-> goals'[goal_id].user_id,
                                     name |-> goals'[goal_id].name,
                                     target_amount |->
                                         goals'[goal_id].target_amount,
                                     current_amount |->
                                         goals'[goal_id].current_amount,
                                     target_date |->
                                         goals'[goal_id].target_date]))
            /\ writes' = writes + 1
    /\ UNCHANGED << users, categories, transactions, budgets >>

(***************************************************************************)
(* A contribution served while another may be in flight.  The handler and  *)
(* utils.contribute_to_goal hold no lock and open no transaction before    *)
(* the UPDATE, so a second server process can run between the query, the   *)
(* commit and the refresh of the first.                                    *)
(***************************************************************************)
\* an UPDATE that adds the amount to the column as stored (SET
\* current_amount = current_amount + ?)
flushed_amount_Increment(loaded, stored, amount) == stored + amount

\* goal.current_amount += amount is computed by Python from the attribute
\* the query loaded; the UPDATE of db.commit() sets the column to that value
flushed_amount(loaded, stored, amount) == loaded + amount

\* sessions that have queried the goal and not yet committed
InFlight == {w \in Workers : sessions[w].phase = "loaded"}

\* The handler from its first line to the query of utils.contribute_to_goal.
\* Goals are neither deleted nor given away while contributions are in
\* flight here, so the handler's own lookup and the query see the same row.
contribute_to_goal_query(w, u, goal_id, amount) ==
    /\ AfterWrite
    /\ sessions[w].phase \in {"none", "closed"}
    /\ writes + Cardinality(InFlight) < MaxRaceWrites
    /\ IF ~GoalContributeValid(amount)
       THEN /\ resp' = Response("contribute_to_financial_goal", 422,
                                Detail("amount"))
            /\ UNCHANGED sessions
       ELSE IF get_goal_by_id(goal_id) = << >>
       THEN /\ resp' = Response("contribute_to_financial_goal", 404,
                                Detail("goal"))
            /\ UNCHANGED sessions
       ELSE IF get_goal_by_id(goal_id)[1].user_id # u
       THEN /\ resp' = Response("contribute_to_financial_goal", 403,
                                Detail("goal"))
            /\ UNCHANGED sessions
       ELSE /\ sessions' =
                  [sessions EXCEPT
                      ![w] = [phase |-> "loaded", goal_id |-> goal_id,
                              amount |-> amount,
                              loaded |-> goals[goal_id].current_amount]]
            /\ UNCHANGED resp
    /\ UNCHANGED << store, writes >>

\* goal.current_amount += amount; db.commit()
contribute_to_goal_commit(w) ==
    /\ AfterWrite
    /\ sessions[w].phase = "loaded"
    /\ sessions[w].goal_id \in DOMAIN goals
    /\ goals' =
          [goals EXCEPT
              ![sessions[w].goal_id].current_amount =
                  flushed_amount(sessions[w].loaded, @, sessions[w].amount)]
    /\ sessions' = [sessions EXCEPT ![w].phase = "committed"]
    /\ writes' = writes + 1
    /\ UNCHANGED << users, categories, transactions, budgets, resp >>

\* db.refresh(goal), db.close(), and the handler's answer from the row as
\* it is stored by then
contribute_to_goal_refresh(w) ==
    /\ AfterWrite
    /\ sessions[w].phase = "committed"
    /\ sessions[w].goal_id \in DOMAIN goals
    /\ resp' = Response("contribute_to_financial_goal", 200,
                        calculate_goal_progress(
                            goal_to_dict(sessions[w].goal_id)))
    /\ sessions' = [sessions EXCEPT ![w].phase = "closed"]
    /\ UNCHANGED << store, writes >>

\* the handler changes the dictionary get_goal_by_id returned, and answers
\* from it; it does not call utils.update_goal
update_financial_goal_response(u, goal_id, update) ==
    IF goal_id \notin DOMAIN goals
    THEN Response("update_financial_goal", 404, Detail("goal"))
    ELSE IF goals[goal_id].user_id # u
    THEN Response("update_financial_goal", 403, Detail("goal"))
    ELSE LET goal == goal_to_dict(goal_id)
             changed ==
                 [goal EXCEPT
                    !.name = IF update.name # None THEN update.name ELSE @,
                    !.target_amount =
                        IF update.target_amount # << >>
                        THEN update.target_amount[1] ELSE @,
                    !.target_date =
                        IF update.target_date # NoDate
                        THEN update.target_date ELSE @]
         IN  Response("update_financial_goal", 200,
                      calculate_goal_progress(changed))

update_financial_goal(u, goal_id, update) ==
    /\ AfterWrite
    /\ UNCHANGED sessions
    /\ resp' = update_financial_goal_response(u, goal_id, update)
    /\ UNCHANGED << store, writes >>

delete_financial_goal(u, goal_id) ==
    /\ AfterWrite
    /\ UNCHANGED sessions
    /\ writes < MaxGoalWrites
    /\ IF goal_id \notin DOMAIN goals
       THEN /\ resp' = Response("delete_financial_goal", 404, Detail("goal"))
            /\ UNCHANGED << goals, writes >>
       ELSE IF goals[goal_id].user_id # u
       THEN /\ resp' = Response("delete_financial_goal", 403, Detail("goal"))
            /\ UNCHANGED << goals, writes >>
       ELSE /\ goals' = Remove(goals, {goal_id})
            /\ resp' = Response("delete_financial_goal", 200, [id |-> goal_id])
            /\ writes' = writes + 1
    /\ UNCHANGED << users, categories, transactions, budgets >>

(***************************************************************************)
(* Analytics (routes/analytics.py).  An Optional[str] query parameter is   *)
(* << >> when the request does not carry it and << s >> when it carries    *)
(* the string s.                                                           *)
(***************************************************************************)
\* a < b on Python strings: the first character that differs decides, and a
\* proper prefix is the smaller
RECURSIVE StrLess(_, _)
StrLess(a, b) ==
    IF b = << >> THEN FALSE
    ELSE IF a = << >> THEN TRUE
    ELSE IF Head(a) = Head(b) THEN StrLess(Tail(a), Tail(b))
    ELSE Ord(Head(a)) < Ord(Head(b))

StrLe(a, b) == a = b \/ StrLess(a, b)

\* `if start_date:` is taken for a string that is neither None nor empty
Truthy(param) == param # << >> /\ param[1] # << >>

NotBefore(transaction_date, start_date) == StrLe(start_date, transaction_date)

\* an end of range that is itself left out
NotAfter_Exclusive(transaction_date, end_date) ==
    StrLess(transaction_date, end_date)

NotAfter(transaction_date, end_date) == StrLe(transaction_date, end_date)

\* the two list comprehensions that narrow the transactions to the range
DateFilter(txs, start_date, end_date) ==
    LET from == IF Truthy(start_date)
                THEN SelectSeq(txs, LAMBDA t :
                                 NotBefore(t.transaction_date, start_date[1]))
                ELSE txs
    IN  IF Truthy(end_date)
        THEN SelectSeq(from, LAMBDA t :
                         NotAfter(t.transaction_date, end_date[1]))
        ELSE from

\* sum(t["amount"] for t in txs)
RECURSIVE SumSeq(_)
SumSeq(txs) ==
    IF Len(txs) = 0 THEN 0
    ELSE SumSeq(SubSeq(txs, 1, Len(txs) - 1)) + txs[Len(txs)].amount

OfType(txs, type) == SelectSeq(txs, LAMBDA t : t.type = type)

\* a total that takes every transaction, whatever its type
TypeTotal_AnyType(txs, type) == SumSeq(txs)

\* total_income, total_expense: the running sums of the loop
TypeTotal(txs, type) == SumSeq(OfType(txs, type))

\* the keys of a defaultdict filled in the order of txs: each category_id once,
\* in the order of its first transaction
RECURSIVE GroupKeys(_)
GroupKeys(txs) ==
    IF Len(txs) = 0 THEN << >>
    ELSE LET rest == GroupKeys(SubSeq(txs, 1, Len(txs) - 1))
             c == txs[Len(txs)].category_id
         IN  IF \E k \in 1..Len(rest) : rest[k] = c THEN rest
             ELSE Append(rest, c)

\* a grouping that keeps the last amount of a category instead of adding
by_category_LastAmount(txs, type) ==
    LET of == OfType(txs, type)
        keys == GroupKeys(of)
    IN  [k \in 1..Len(keys) |->
           LET mine == SelectSeq(of, LAMBDA t : t.category_id = keys[k])
           IN  [category_id |-> keys[k], amount |-> mine[Len(mine)].amount,
                count |-> Len(mine)]]

\* income_by_category, expense_by_category: amount and count per category_id
by_category(txs, type) ==
    LET of == OfType(txs, type)
        keys == GroupKeys(of)
    IN  [k \in 1..Len(keys) |->
           LET mine == SelectSeq(of, LAMBDA t : t.category_id = keys[k])
           IN  [category_id |-> keys[k], amount |-> SumSeq(mine),
                count |-> Len(mine)]]

\* the percentage cut to two decimals instead of rounded
StatisticsPercentage_Truncated(amount, total) ==
    IF total > 0
    THEN 10000 * (amount \div total) + (10000 * (amount % total)) \div total
    ELSE 0

StatisticsPercentage(amount, total) ==
    IF total > 0 THEN Percent2(amount, total) ELSE 0

\* a base that takes both types together
PercentageBase_BothTypes(total_income, total_expense, type) ==
    total_income + total_expense

\* the total a category's percentage is taken of
PercentageBase(total_income, total_expense, type) ==
    IF type = "income" THEN total_income ELSE total_expense

\* the entries of the groups whose category is found in the given table
category_entries_of(cats, groups, total) ==
    LET known == SelectSeq(groups, LAMBDA g : g.category_id \in DOMAIN cats)
    IN  [k \in 1..Len(known) |->
           [category_name |-> cats[known[k].category_id].name,
            category_id |-> known[k].category_id,
            total_amount |-> known[k].amount,
            transaction_count |-> known[k].count,
            percentage |-> StatisticsPercentage(known[k].amount, total)]]

\* income_categories, expense_categories before they are sorted
category_entries(groups, total) ==
    category_entries_of(categories, groups, total)

\* list.sort(key = total_amount, reverse = True): stable, descending
RECURSIVE InsertByAmount(_, _)
InsertByAmount(sorted, x) ==
    IF sorted = << >> THEN << x >>
    ELSE IF Head(sorted).total_amount >= x.total_amount
         THEN << Head(sorted) >> \o InsertByAmount(Tail(sorted), x)
         ELSE << x >> \o sorted

\* the entries left in the order the dictionary gave them
SortByAmount_Unsorted(s) == s

RECURSIVE SortByAmount(_)
SortByAmount(s) ==
    IF Len(s) = 0 THEN << >>
    ELSE InsertByAmount(SortByAmount(SubSeq(s, 1, Len(s) - 1)), s[Len(s)])

\* sorted(keys) of strings
RECURSIVE SortedStrings(_)
SortedStrings(S) ==
    IF S = {} THEN << >>
    ELSE LET m == CHOOSE x \in S : \A y \in S : StrLe(x, y)
         IN  << m >> \o SortedStrings(S \ {m})

\* a series with an entry for every transaction
DynamicsSeries_PerTransaction(expenses) ==
    [k \in 1..Len(expenses) |->
       [date |-> expenses[k].transaction_date, amount |-> expenses[k].amount]]

\* expense_by_date, read in the order of its sorted keys
DynamicsSeries(expenses) ==
    LET dates == SortedStrings({expenses[k].transaction_date :
                                  k \in 1..Len(expenses)})
    IN  [k \in 1..Len(dates) |->
           [date |-> dates[k],
            amount |-> SumSeq(SelectSeq(expenses, LAMBDA t :
                                          t.transaction_date = dates[k]))]]

\* what get_financial_statistics answers to user u from the given tables
financial_statistics_of(cats, table, u, start_date, end_date) ==
    LET txs == DateFilter(query_user_transactions(table, u), start_date,
                          end_date)
        total_income == TypeTotal(txs, "income")
        total_expense == TypeTotal(txs, "expense")
    IN  Response("get_financial_statistics", 200,
          [total_income |-> total_income,
           total_expense |-> total_expense,
           balance |-> total_income - total_expense,
           expense_by_category |->
               SortByAmount(category_entries_of(
                   cats, by_category(txs, "expense"),
                   PercentageBase(total_income, total_expense, "expense"))),
           income_by_category |->
               SortByAmount(category_entries_of(
                   cats, by_category(txs, "income"),
                   PercentageBase(total_income, total_expense, "income"))),
           expense_dynamics |-> DynamicsSeries(OfType(txs, "expense"))])

\* what get_financial_statistics answers to user u in the current state
get_financial_statistics_response(u, start_date, end_date) ==
    financial_statistics_of(categories, transactions, u, start_date, end_date)

get_financial_statistics(u, start_date, end_date) ==
    /\ AfterWrite
    /\ UNCHANGED sessions
    /\ resp' = get_financial_statistics_response(u, start_date, end_date)
    /\ UNCHANGED << store, writes >>

\* what get_expense_dynamics answers to user u from the given table
expense_dynamics_of(table, u, start_date, end_date) ==
    LET expenses == OfType(query_user_transactions(table, u), "expense")
    IN  Response("get_expense_dynamics", 200,
          [items |-> DynamicsSeries(DateFilter(expenses, start_date,
                                               end_date))])

\* what get_expense_dynamics answers to user u in the current state
get_expense_dynamics_response(u, start_date, end_date) ==
    expense_dynamics_of(transactions, u, start_date, end_date)

get_expense_dynamics(u, start_date, end_date) ==
    /\ AfterWrite
    /\ UNCHANGED sessions
    /\ resp' = get_expense_dynamics_response(u, start_date, end_date)
    /\ UNCHANGED << store, writes >>

\* a base narrowed to the date range like the category's own transactions
total_same_type_InRange(all, type, start_date, end_date) ==
    SumSeq(OfType(DateFilter(all, start_date, end_date), type))

\* total_same_type: all of the user's transactions of the category's type; the
\* date range of the request plays no part in it
total_same_type(all, type, start_date, end_date) == SumSeq(OfType(all, type))

\* what get_category_statistics answers to user u from the given tables
category_statistics_of(cats, table, u, category_id, start_date, end_date) ==
    IF category_id \notin DOMAIN cats
    THEN Response("get_category_statistics", 404, Detail("category"))
    ELSE IF cats[category_id].user_id # u
    THEN Response("get_category_statistics", 403, Detail("category"))
    ELSE LET mine == SelectSeq(query_user_transactions(table, u), LAMBDA t :
                                 t.category_id = category_id)
             txs == DateFilter(mine, start_date, end_date)
             total_amount == SumSeq(txs)
             base == total_same_type(query_user_transactions(table, u),
                                     cats[category_id].type,
                                     start_date, end_date)
         IN  Response("get_category_statistics", 200,
               [category_name |-> cats[category_id].name,
                category_id |-> category_id,
                total_amount |-> total_amount,
                transaction_count |-> Len(txs),
                percentage |-> StatisticsPercentage(total_amount, base)])

\* what get_category_statistics answers to user u in the current state
get_category_statistics_response(u, category_id, start_date, end_date) ==
    category_statistics_of(categories, transactions, u, category_id,
                           start_date, end_date)

get_category_statistics(u, category_id, start_date, end_date) ==
    /\ AfterWrite
    /\ UNCHANGED sessions
    /\ resp' = get_category_statistics_response(u, category_id, start_date,
                                                end_date)
    /\ UNCHANGED << store, writes >>

\* what get_summary answers to user u from the given table
summary_of(table, u) ==
    LET txs == query_user_transactions(table, u)
        total_income == SumSeq(OfType(txs, "income"))
        total_expense == SumSeq(OfType(txs, "expense"))
    IN  Response("get_summary", 200,
          [total_income |-> total_income,
           total_expense |-> total_expense,
           balance |-> total_income - total_expense,
           income_count |-> Len(OfType(txs, "income")),
           expense_count |-> Len(OfType(txs, "expense")),
           total_transactions |-> Len(txs)])

\* what get_summary answers to user u in the current state
get_summary_response(u) == summary_of(transactions, u)

get_summary(u) ==
    /\ AfterWrite
    /\ UNCHANGED sessions
    /\ resp' = get_summary_response(u)
    /\ UNCHANGED << store, writes >>

(***************************************************************************)
(* Transactions and budgets: what the budget status is computed from.      *)
(***************************************************************************)
Next ==
    \/ \E u \in users, c \in RequestIds(categories), d \in TransactionInputs :
          add_income(u, c, d)
    \/ \E u \in users, c \in RequestIds(categories), d \in TransactionInputs :
          add_expense(u, c, d)
    \/ \E u \in users, t \in RequestIds(transactions) :
          delete_transaction_by_id(u, t)
    \/ \E u \in users, c \in RequestIds(categories) :
          delete_category_by_id(u, c)
    \/ \E u \in users, c \in RequestIds(categories), l \in Limits, p \in Periods :
          create_new_budget(u, c, l, p)
    \/ \E u \in users : get_budget_status(u)
    \/ \E u \in users, b \in RequestIds(budgets) : get_budget_by_id(u, b)
    \/ \E u \in users, b \in RequestIds(budgets) : delete_budget_by_id(u, b)

Spec == Init /\ [][Next]_vars

(***************************************************************************)
(* Categories and the budgets that reference them.                         *)
(***************************************************************************)
NextCategories ==
    \/ \E u \in users, n \in CategoryNames, t \in CategoryTypes :
          create_new_category(u, n, t)
    \/ \E u \in users, c \in RequestIds(categories), upd \in CategoryUpdates :
          update_category_by_id(u, c, upd)
    \/ \E u \in users, c \in RequestIds(categories) :
          delete_category_by_id(u, c)
    \/ \E u \in users, c \in RequestIds(categories), l \in Limits, p \in Periods :
          create_new_budget(u, c, l, p)
    \/ \E u \in users, b \in RequestIds(budgets) : get_budget_by_id(u, b)
    \/ \E u \in users, b \in RequestIds(budgets) : delete_budget_by_id(u, b)

SpecCategories == Init /\ [][NextCategories]_vars

(***************************************************************************)
(* Goals.                                                                  *)
(***************************************************************************)
NextGoals ==
    \/ \E u \in users, n \in GoalNames, t \in Targets, d \in GoalDates :
          create_financial_goal(u, n, t, d)
    \/ \E u \in users : get_goals_progress(u)
    \/ \E u \in users, g \in RequestIds(goals) : get_goal_by_id_endpoint(u, g)
    \/ \E u \in users, g \in RequestIds(goals), a \in ContributionAmounts :
          contribute_to_financial_goal(u, g, a)
    \/ \E u \in users, g \in RequestIds(goals), upd \in GoalUpdates :
          update_financial_goal(u, g, upd)
    \/ \E u \in users, g \in RequestIds(goals) : delete_financial_goal(u, g)

SpecGoals == Init /\ [][NextGoals]_vars

(***************************************************************************)
(* Contributions served by two processes at once.                          *)
(***************************************************************************)
NextRace ==
    \/ \E w \in Workers, u \in users, g \in RequestIds(goals),
          a \in ContributionAmounts :
          contribute_to_goal_query(w, u, g, a)
    \/ \E w \in Workers : contribute_to_goal_commit(w)
    \/ \E w \in Workers : contribute_to_goal_refresh(w)

SpecRace == Init /\ [][NextRace]_vars

(***************************************************************************)
(* The analytics: transactions are posted and deleted, categories are      *)
(* deleted, and the four analytics endpoints are read in between.          *)
(***************************************************************************)
NextAnalytics ==
    \/ \E u \in users, c \in RequestIds(categories), d \in AnalyticsInputs :
          writes < MaxAnalyticsWrites /\ add_income(u, c, d)
    \/ \E u \in users, c \in RequestIds(categories), d \in AnalyticsInputs :
          writes < MaxAnalyticsWrites /\ add_expense(u, c, d)
    \/ \E u \in users, t \in RequestIds(transactions) :
          writes < MaxAnalyticsWrites /\ delete_transaction_by_id(u, t)
    \/ \E u \in users, c \in RequestIds(categories) :
          writes < MaxAnalyticsWrites /\ delete_category_by_id(u, c)
    \/ \E u \in users, s \in StartDates, e \in EndDates :
          get_financial_statistics(u, s, e)
    \/ \E u \in users, s \in StartDates, e \in EndDates :
          get_expense_dynamics(u, s, e)
    \/ \E u \in users, c \in RequestIds(categories),
          s \in StartDates, e \in EndDates :
          get_category_statistics(u, c, s, e)
    \/ \E u \in users : get_summary(u)

SpecAnalytics == Init /\ [][NextAnalytics]_vars

(***************************************************************************)
(* Access by id: every handler that is given the id of a transaction, a    *)
(* category, a budget or a goal.                                           *)
(***************************************************************************)
NextAccess ==
    \/ \E u \in users, t \in RequestIds(transactions) : get_transaction(u, t)
    \/ \E u \in users, t \in RequestIds(transactions) :
          writes < MaxAccessWrites /\ delete_transaction_by_id(u, t)
    \/ \E u \in users, c \in RequestIds(categories) :
          get_category_by_id_endpoint(u, c)
    \/ \E u \in users, c \in RequestIds(categories), upd \in CategoryUpdates :
          writes < MaxAccessWrites /\ update_category_by_id(u, c, upd)
    \/ \E u \in users, c \in RequestIds(categories) :
          writes < MaxAccessWrites /\ delete_category_by_id(u, c)
    \/ \E u \in users, c \in RequestIds(categories),
          s \in StartDates, e \in EndDates :
          get_category_statistics(u, c, s, e)
    \/ \E u \in users, c \in RequestIds(categories), d \in AnalyticsInputs :
          writes < MaxAccessWrites /\ add_income(u, c, d)
    \/ \E u \in users, c \in RequestIds(categories), d \in AnalyticsInputs :
          writes < MaxAccessWrites /\ add_expense(u, c, d)
    \/ \E u \in users, c \in RequestIds(categories), l \in Limits, p \in Periods :
          writes < MaxAccessWrites /\ create_new_budget(u, c, l, p)
    \/ \E u \in users, b \in RequestIds(budgets) : get_budget_by_id(u, b)
    \/ \E u \in users, b \in RequestIds(budgets) :
          writes < MaxAccessWrites /\ delete_budget_by_id(u, b)
    \/ \E u \in users, g \in RequestIds(goals) : get_goal_by_id_endpoint(u, g)
    \/ \E u \in users, g \in RequestIds(goals), a \in ContributionAmounts :
          writes < MaxAccessWrites /\ contribute_to_financial_goal(u, g, a)
    \/ \E u \in users, g \in RequestIds(goals), upd \in GoalUpdates :
          update_financial_goal(u, g, upd)
    \/ \E u \in users, g \in RequestIds(goals) :
          writes < MaxAccessWrites /\ delete_financial_goal(u, g)

SpecAccess == Init /\ [][NextAccess]_vars

(***************************************************************************)
(* Budgets: created with well and ill formed periods, read and deleted.    *)
(***************************************************************************)
NextBudgets ==
    \/ \E u \in users, c \in RequestIds(categories), l \in Limits,
          p \in BudgetPeriods :
          create_new_budget(u, c, l, p)
    \/ \E u \in users : get_budget_status(u)
    \/ \E u \in users, b \in RequestIds(budgets) : get_budget_by_id(u, b)
    \/ \E u \in users, b \in RequestIds(budgets) : delete_budget_by_id(u, b)

SpecBudgets == Init /\ [][NextBudgets]_vars

(***************************************************************************)
(* Accounts: users fill the store and delete their accounts.               *)
(***************************************************************************)
NextUsers ==
    \/ \E u \in users : delete_current_user(u)
    \/ \E u \in users, n \in CategoryNames, t \in CategoryTypes :
          create_new_category(u, n, t)
    \/ \E u \in users, c \in RequestIds(categories), d \in AnalyticsInputs :
          add_income(u, c, d)
    \/ \E u \in users, c \in RequestIds(categories), d \in AnalyticsInputs :
          add_expense(u, c, d)
    \/ \E u \in users, c \in RequestIds(categories), l \in Limits, p \in Periods :
          create_new_budget(u, c, l, p)
    \/ \E u \in users, n \in GoalNames, t \in Targets, d \in GoalDates :
          writes < MaxWrites /\ create_financial_goal(u, n, t, d)

SpecUsers == Init /\ [][NextUsers]_vars

(***************************************************************************)
(* The whole store: every handler that writes, and the queries of the      *)
(* three calculators.                                                      *)
(***************************************************************************)
StoreInputs == {d \in AnalyticsInputs : d.amount = 5000}

StoreStartDates == {<< >>, << DateStr([y |-> 2024, m |-> 1, d |-> 16]) >>}

NextStore ==
    \/ \E u \in users : writes < MaxStoreWrites /\ delete_current_user(u)
    \/ \E u \in users, n \in CategoryNames, t \in CategoryTypes :
          writes < MaxStoreWrites /\ create_new_category(u, n, t)
    \/ \E u \in users, c \in RequestIds(categories), upd \in CategoryUpdates :
          writes < MaxStoreWrites /\ update_category_by_id(u, c, upd)
    \/ \E u \in users, c \in RequestIds(categories) :
          writes < MaxStoreWrites /\ delete_category_by_id(u, c)
    \/ \E u \in users, c \in RequestIds(categories), d \in StoreInputs :
          writes < MaxStoreWrites /\ add_income(u, c, d)
    \/ \E u \in users, c \in RequestIds(categories), d \in StoreInputs :
          writes < MaxStoreWrites /\ add_expense(u, c, d)
    \/ \E u \in users, t \in RequestIds(transactions) :
          writes < MaxStoreWrites /\ delete_transaction_by_id(u, t)
    \/ \E u \in users, c \in RequestIds(categories), p \in Periods :
          writes < MaxStoreWrites /\ create_new_budget(u, c, 30000, p)
    \/ \E u \in users, b \in RequestIds(budgets) :
          writes < MaxStoreWrites /\ delete_budget_by_id(u, b)
    \/ \E u \in users, n \in GoalNames, d \in GoalDates :
          writes < MaxStoreWrites /\ create_financial_goal(u, n, 30000, d)
    \/ \E u \in users, g \in RequestIds(goals) :
          writes < MaxStoreWrites /\ contribute_to_financial_goal(u, g, 25000)
    \/ \E u \in users, g \in RequestIds(goals) :
          writes < MaxStoreWrites /\ delete_financial_goal(u, g)
    \/ \E u \in users : get_budget_status(u)
    \/ \E u \in users, b \in RequestIds(budgets) : get_budget_by_id(u, b)
    \/ \E u \in users : get_goals_progress(u)
    \/ \E u \in users, g \in RequestIds(goals) : get_goal_by_id_endpoint(u, g)
    \/ \E u \in users, g \in RequestIds(goals), upd \in GoalUpdates :
          update_financial_goal(u, g, upd)
    \/ \E u \in users, s \in StoreStartDates :
          get_financial_statistics(u, s, << >>)
    \/ \E u \in users, s \in StoreStartDates : get_expense_dynamics(u, s, << >>)
    \/ \E u \in users, c \in RequestIds(categories), s \in StoreStartDates :
          get_category_statistics(u, c, s, << >>)
    \/ \E u \in users : get_summary(u)

SpecStore == Init /\ [][NextStore]_vars

(***************************************************************************)
(* Properties of the budget status.                                        *)
(***************************************************************************)
\* the sum of amount over the rows ids of a transaction table
RECURSIVE SumIn(_, _)
SumIn(table, ids) ==
    IF ids = {} THEN 0
    ELSE LET i == CHOOSE x \in ids : TRUE
         IN  table[i].amount + SumIn(table, ids \ {i})

SumAmounts(ids) == SumIn(transactions, ids)

\* the rows of a transaction table that a budget row counts: of its owner, in
\* its category, expenses, dated in its period
CountedIn(table, budget) ==
    {i \in DOMAIN table :
        /\ table[i].user_id = budget.user_id
        /\ table[i].category_id = budget.category_id
        /\ table[i].type = "expense"
        /\ Len(budget.period) <= Len(table[i].transaction_date)
        /\ \A k \in 1..Len(budget.period) :
              table[i].transaction_date[k] = budget.period[k]}

CountedBy(b) == CountedIn(transactions, budgets[b])

\* the status the owner of budget b is answered with in the current state
StatusOf(b) == get_budget_by_id_response(budgets[b].user_id, b).body

\* p hundredths is s / l * 100 rounded to two decimals: no hundredth is nearer
NearestHundredth(p, s, l) ==
    LET p1 == p - 10000 * (s \div l)
        r == s % l
    IN  (2 * p1 - 1) * l <= 20000 * r /\ 20000 * r <= (2 * p1 + 1) * l

\* C1: in every reachable state and for every budget, the spent_amount its
\* owner is answered with is the sum of amount over exactly the owner's expense
\* transactions of the budget's category whose date starts with the period;
\* no other transaction contributes.
C1_SpentIsSumOfMatching ==
    \A b \in DOMAIN budgets :
        /\ get_budget_by_id_response(budgets[b].user_id, b).status = 200
        /\ StatusOf(b).spent_amount = SumAmounts(CountedBy(b))

\* two counted expenses, and beside them a transaction of the same category
\* that is an income of another month, one of another category and one of
\* another user
C1_Witness ==
    /\ 1 \in DOMAIN budgets
    /\ Cardinality(CountedBy(1)) = 2
    /\ StatusOf(1).spent_amount = 10000
    /\ \E i \in DOMAIN transactions :
          /\ transactions[i].category_id = budgets[1].category_id
          /\ transactions[i].type = "income"
          /\ ~StartsWith(transactions[i].transaction_date, budgets[1].period)
    /\ \E i \in DOMAIN transactions :
          /\ transactions[i].category_id # budgets[1].category_id
          /\ transactions[i].user_id = budgets[1].user_id
          /\ transactions[i].type = "expense"
    /\ \E i \in DOMAIN transactions :
          /\ transactions[i].user_id # budgets[1].user_id
          /\ transactions[i].type = "expense"
          /\ StartsWith(transactions[i].transaction_date, budgets[1].period)

\* C2 as claimed: remaining_amount is limit_amount minus spent, and on overspend
\* the query succeeds with a negative remaining_amount and a percentage_used
\* above 100.
C2_OverspendAbove100 ==
    \A b \in DOMAIN budgets :
        /\ get_budget_by_id_response(budgets[b].user_id, b).status = 200
        /\ StatusOf(b).remaining_amount
             = budgets[b].limit_amount - StatusOf(b).spent_amount
        /\ StatusOf(b).spent_amount > budgets[b].limit_amount
             => /\ StatusOf(b).remaining_amount < 0
                /\ StatusOf(b).percentage_used > 10000

\* C2 as amended: on overspend the query succeeds with a negative
\* remaining_amount and a percentage_used of at least 100; it is above 100 when
\* the overspend is more than 0.005 % of the limit and exactly 100 when it is
\* less.
C2_OverspendAtLeast100 ==
    \A b \in DOMAIN budgets :
        LET over == StatusOf(b).spent_amount - budgets[b].limit_amount
        IN  /\ get_budget_by_id_response(budgets[b].user_id, b).status = 200
            /\ StatusOf(b).remaining_amount = -over
            /\ over > 0
                 => /\ StatusOf(b).remaining_amount < 0
                    /\ StatusOf(b).percentage_used >= 10000
                    /\ over > budgets[b].limit_amount \div 20000
                         => StatusOf(b).percentage_used > 10000
                    /\ over * 20000 < budgets[b].limit_amount
                         => StatusOf(b).percentage_used = 10000

\* a budget overspent by so little that its percentage rounds to 100.0, and
\* one overspent by more
C2_Witness ==
    /\ \E b \in DOMAIN budgets :
          /\ StatusOf(b).spent_amount = budgets[b].limit_amount + 1
          /\ StatusOf(b).remaining_amount = -1
          /\ StatusOf(b).percentage_used = 10000
    /\ resp.op = "add_expense"
    /\ resp.status = 201

\* C3: for every budget, percentage_used is spent / limit_amount * 100 rounded
\* to two decimals, and 0 when limit_amount <= 0; limit 10000 with 5000 spent
\* gives 50.0.
C3_PercentageRounded ==
    \A b \in DOMAIN budgets :
        LET u == budgets[b].user_id
            zero == [budget_to_dict(b) EXCEPT !.limit_amount = 0]
            negative == [budget_to_dict(b) EXCEPT !.limit_amount = -30000]
        IN  /\ budgets[b].limit_amount > 0
            /\ NearestHundredth(StatusOf(b).percentage_used,
                                StatusOf(b).spent_amount,
                                budgets[b].limit_amount)
            /\ (budgets[b].limit_amount = 10000
                  /\ StatusOf(b).spent_amount = 5000)
                 => StatusOf(b).percentage_used = 5000
            /\ calculate_budget_status(zero, u).percentage_used = 0
            /\ calculate_budget_status(negative, u).percentage_used = 0

\* a percentage that had to be rounded up: 5000 of 30000 is 16.67
C3_Witness ==
    \E b \in DOMAIN budgets :
        /\ budgets[b].limit_amount = 30000
        /\ StatusOf(b).spent_amount = 5000
        /\ StatusOf(b).percentage_used = 1667

\* the status the owner of budget b is answered with after the step
StatusAfter(b) ==
    BudgetStatus(budget_to_dict(b),
                 BudgetCategoryName(categories', budgets[b].category_id),
                 query_user_transactions(transactions', budgets[b].user_id))

\* C4: the status is not stored.  Over every step that changes the
\* transactions, whatever handler takes it (a creation, a deletion, or the
\* cascade of a category's deletion), the status of each budget that stays is
\* the one computed from the transactions present after the step:
\* spent_amount rises by the counted transactions the step added and falls by
\* those it removed, and remaining_amount and percentage_used follow it.
C4_StatusFollowsTransactions ==
    [][\A b \in DOMAIN budgets \cap DOMAIN budgets' :
          (budgets'[b] = budgets[b] /\ transactions' # transactions) =>
            LET before == CountedIn(transactions, budgets[b])
                after == CountedIn(transactions', budgets[b])
                now == StatusOf(b)
                next == StatusAfter(b)
            IN  /\ next.spent_amount
                     = now.spent_amount
                         + SumIn(transactions', after \ before)
                         - SumIn(transactions, before \ after)
                /\ next.remaining_amount
                     = budgets[b].limit_amount - next.spent_amount
                /\ NearestHundredth(next.percentage_used, next.spent_amount,
                                    budgets[b].limit_amount)]_vars

\* a counted expense was added and has just been deleted again: the budget is
\* back at what the remaining transaction gives
C4_Witness ==
    /\ resp.op = "delete_transaction_by_id"
    /\ resp.status = 200
    /\ resp.body.id = 5
    /\ 1 \in DOMAIN budgets
    /\ BudgetTxMatches(resp.body, budget_to_dict(1))
    /\ resp.body.user_id = budgets[1].user_id
    /\ StatusOf(1).spent_amount = 5000
    /\ StatusOf(1).percentage_used = 5000

(***************************************************************************)
(* Properties of the categories.                                           *)
(***************************************************************************)
\* C5: in every reachable state every stored budget references a category
\* whose type is expense.
C5_BudgetsReferenceExpenseCategories ==
    \A b \in DOMAIN budgets :
        /\ budgets[b].category_id \in DOMAIN categories
        /\ categories[budgets[b].category_id].type = "expense"

\* a budget of an expense category, and the category turned into an income
\* category by an update
C5_Witness ==
    /\ resp.op = "update_category_by_id"
    /\ resp.status = 200
    /\ \E b \in DOMAIN budgets :
          /\ budgets[b].category_id = resp.body.id
          /\ categories[budgets[b].category_id].type = "income"

(***************************************************************************)
(* Properties of the goals.                                                *)
(***************************************************************************)
\* the progress the owner of goal g is answered with in the current state
ProgressOf(g) == get_goal_by_id_response(goals[g].user_id, g).body

\* C6: a goal's stored current_amount starts at 0, no step other than a
\* successful contribution changes it (updates, reads and progress queries
\* leave it as it is), no step lowers it, and so it is never negative.
C6_CurrentAmountOnlyGrows ==
    /\ [](\A g \in DOMAIN goals : goals[g].current_amount >= 0)
    /\ [][/\ \A g \in DOMAIN goals' \ DOMAIN goals :
                goals'[g].current_amount = 0
          /\ \A g \in DOMAIN goals \cap DOMAIN goals' :
                /\ goals'[g].current_amount >= goals[g].current_amount
                /\ goals'[g].current_amount # goals[g].current_amount
                     => /\ resp'.op = "contribute_to_financial_goal"
                        /\ resp'.status = 200
                        /\ resp'.body.id = g]_vars

\* a goal created at 0 and raised by two contributions
C6_Witness ==
    /\ resp.op = "contribute_to_financial_goal"
    /\ resp.status = 200
    /\ \E g \in DOMAIN goals :
          /\ g # 1
          /\ resp.body.id = g
          /\ goals[g].current_amount = 25040

\* C7: a contribution of a valid amount a by the owner of an existing goal
\* succeeds, stores the previous current_amount plus a, leaves the goal's
\* other fields and every other goal as they were, and answers with the
\* progress of the new amount; target 100000, current 0 and a = 25000 give
\* progress 25.0 and remaining 75000.
C7_ContributionAdds ==
    [][\A u \in users, g \in DOMAIN goals, a \in ContributionAmounts :
          (/\ contribute_to_financial_goal(u, g, a)
           /\ a > 0
           /\ goals[g].user_id = u)
          => LET target == goals[g].target_amount
                 new == goals[g].current_amount + a
             IN  /\ resp'.status = 200
                 /\ DOMAIN goals' = DOMAIN goals
                 /\ goals'[g] = [goals[g] EXCEPT !.current_amount = new]
                 /\ \A h \in DOMAIN goals \ {g} : goals'[h] = goals[h]
                 /\ resp'.body.id = g
                 /\ resp'.body.current_amount = new
                 /\ resp'.body.target_amount = target
                 /\ NearestHundredth(resp'.body.progress_percentage, new,
                                     target)
                 /\ resp'.body.remaining_amount
                      = IF new >= target THEN 0 ELSE target - new
                 /\ (target = 100000 /\ new = 25000 /\ a = 25000)
                      => /\ resp'.body.progress_percentage = 2500
                         /\ resp'.body.remaining_amount = 75000]_vars

\* the second contribution to the seeded goal of target 100000, beside a goal
\* that has none
C7_Witness ==
    /\ resp.op = "contribute_to_financial_goal"
    /\ resp.status = 200
    /\ resp.body.id = 1
    /\ goals[1].current_amount = 50000
    /\ resp.body.progress_percentage = 5000
    /\ resp.body.remaining_amount = 50000
    /\ \E h \in DOMAIN goals : h # 1 /\ goals[h].current_amount = 0

\* C8: a contribution to a goal id that is not in the store is answered 404
\* and leaves every stored goal as it was.
C8_ContributeToMissingGoal ==
    [][\A u \in users, g \in RequestIds(goals) \ DOMAIN goals,
          a \in ContributionAmounts :
          (contribute_to_financial_goal(u, g, a) /\ GoalContributeValid(a))
          => /\ resp'.status = 404
             /\ goals' = goals]_vars

\* a contribution to an id that no goal has was just refused, the goals there
\* are untouched
C8_Witness ==
    /\ resp.op = "contribute_to_financial_goal"
    /\ resp.status = 404
    /\ DOMAIN goals # {}
    /\ \A g \in DOMAIN goals : goals[g].current_amount = 0

\* C9: for every goal, progress_percentage is current_amount / target_amount
\* * 100 rounded to two decimals, and 0 when target_amount <= 0; it is never
\* negative, and when current_amount exceeds target_amount it is still that
\* quotient, not held at 100.
C9_ProgressRounded ==
    \A g \in DOMAIN goals :
        LET zero == [goal_to_dict(g) EXCEPT !.target_amount = 0]
            negative == [goal_to_dict(g) EXCEPT !.target_amount = -30000]
        IN  /\ get_goal_by_id_response(goals[g].user_id, g).status = 200
            /\ goals[g].target_amount > 0
            /\ NearestHundredth(ProgressOf(g).progress_percentage,
                                goals[g].current_amount,
                                goals[g].target_amount)
            /\ ProgressOf(g).progress_percentage >= 0
            /\ goals[g].current_amount > goals[g].target_amount
                 => ProgressOf(g).progress_percentage >= 10000
            /\ 2 * goals[g].current_amount > 3 * goals[g].target_amount
                 => ProgressOf(g).progress_percentage > 15000
            /\ calculate_goal_progress(zero).progress_percentage = 0
            /\ calculate_goal_progress(negative).progress_percentage = 0

\* 50000 saved towards 30000: 166.67
C9_Witness ==
    \E g \in DOMAIN goals :
        /\ goals[g].target_amount = 30000
        /\ goals[g].current_amount = 50000
        /\ ProgressOf(g).progress_percentage = 16667

\* C10: for every goal in every reachable state, remaining_amount is
\* max(0, target_amount - current_amount): never negative, 0 exactly when
\* current_amount >= target_amount, and otherwise the amount that added to
\* current_amount gives target_amount.
C10_RemainingFloored ==
    \A g \in DOMAIN goals :
        LET remaining == ProgressOf(g).remaining_amount
        IN  /\ get_goal_by_id_response(goals[g].user_id, g).status = 200
            /\ remaining >= 0
            /\ remaining = 0
                 <=> goals[g].current_amount >= goals[g].target_amount
            /\ remaining # 0
                 => remaining + goals[g].current_amount
                      = goals[g].target_amount

\* one goal past its target with nothing remaining, another short of it
C10_Witness ==
    /\ \E g \in DOMAIN goals :
          /\ goals[g].current_amount > goals[g].target_amount
          /\ ProgressOf(g).remaining_amount = 0
    /\ \E g \in DOMAIN goals :
          /\ goals[g].current_amount < goals[g].target_amount
          /\ ProgressOf(g).remaining_amount > 0


(***************************************************************************)
(* Properties of the analytics.  They are stated of the store as start-up  *)
(* or a successful write leaves it, for every user and every date range a  *)
(* request can carry.                                                      *)
(***************************************************************************)
\* the day count YYYYMMDD an ISO date stands for
DateNum(d) ==
    LET v(k) == Ord(d[k]) - 48
    IN  v(1) * 10000000 + v(2) * 1000000 + v(3) * 100000 + v(4) * 10000
          + v(6) * 1000 + v(7) * 100 + v(9) * 10 + v(10)

\* a range parameter restricts when it is given and not the empty string
Restricts(param) == param # << >> /\ Len(param[1]) > 0

Within(d, start_date, end_date) ==
    /\ Restricts(start_date) => DateNum(d) >= DateNum(start_date[1])
    /\ Restricts(end_date) => DateNum(d) <= DateNum(end_date[1])

\* the ids of u's transactions of a type dated within the range
IdsWithin(u, type, start_date, end_date) ==
    {i \in DOMAIN transactions :
       /\ transactions[i].user_id = u
       /\ transactions[i].type = type
       /\ Within(transactions[i].transaction_date, start_date, end_date)}

StatisticsOf(u, start_date, end_date) ==
    get_financial_statistics_response(u, start_date, end_date).body

\* C11: in the statistics report total_income is the sum of the amounts of the
\* caller's income transactions in the date range, total_expense the sum of
\* the caller's expense transactions in the range, and balance is
\* total_income - total_expense.
C11_TotalsAndBalance ==
    AfterWrite =>
      \A u \in users, s \in StartDates, e \in EndDates :
        LET report == StatisticsOf(u, s, e)
        IN  /\ report.total_income = SumAmounts(IdsWithin(u, "income", s, e))
            /\ report.total_expense = SumAmounts(IdsWithin(u, "expense", s, e))
            /\ report.balance = report.total_income - report.total_expense

\* the report of the seeded example has been answered: income 50000, expenses
\* 5000 and 1500
C11_Witness ==
    /\ resp.op = "get_financial_statistics"
    /\ resp.body.total_income = 50000
    /\ resp.body.total_expense = 6500
    /\ resp.body.balance = 43500
    /\ Len(resp.body.expense_by_category) = 2

\* the sum of a sequence of numbers
RECURSIVE SeqSum(_)
SeqSum(ns) == IF Len(ns) = 0 THEN 0 ELSE ns[1] + SeqSum(Tail(ns))

Counts(entries) == [k \in 1..Len(entries) |-> entries[k].transaction_count]
Amounts(series) == [k \in 1..Len(series) |-> series[k].amount]
Dates(series) == {series[k].date : k \in 1..Len(series)}

DynamicsOf(u, start_date, end_date) ==
    get_expense_dynamics_response(u, start_date, end_date).body.items

CategoryStatisticsOf(u, c, start_date, end_date) ==
    get_category_statistics_response(u, c, start_date, end_date).body

\* the range as the sentence words it: a parameter the request carries is
\* compared, the empty string too; every date is >= the empty string and none
\* is <= it
WithinAsStated(d, start_date, end_date) ==
    /\ start_date = << >> \/ Len(start_date[1]) = 0
         \/ DateNum(d) >= DateNum(start_date[1])
    /\ end_date = << >>
         \/ (Len(end_date[1]) > 0 /\ DateNum(d) <= DateNum(end_date[1]))

\* the three analytics endpoints count exactly the transactions In lets through
RangeReportsCount(In(_, _, _)) ==
    \A u \in users, s \in StartDates, e \in EndDates :
      LET counted == {i \in DOMAIN transactions :
                        /\ transactions[i].user_id = u
                        /\ In(transactions[i].transaction_date, s, e)}
          expenses == {i \in counted : transactions[i].type = "expense"}
          days == {transactions[i].transaction_date : i \in expenses}
          report == StatisticsOf(u, s, e)
      IN  /\ report.total_income + report.total_expense = SumAmounts(counted)
          /\ SeqSum(Counts(report.income_by_category))
               + SeqSum(Counts(report.expense_by_category))
               = Cardinality(counted)
          /\ Dates(report.expense_dynamics) = days
          /\ Dates(DynamicsOf(u, s, e)) = days
          /\ SeqSum(Amounts(DynamicsOf(u, s, e))) = SumAmounts(expenses)
          /\ \A c \in DOMAIN categories :
               categories[c].user_id = u =>
                 LET mine == {i \in counted : transactions[i].category_id = c}
                     one == CategoryStatisticsOf(u, c, s, e)
                 IN  /\ one.total_amount = SumAmounts(mine)
                     /\ one.transaction_count = Cardinality(mine)

\* a range whose start is after its end leaves nothing in the three reports
EmptyWhenStartAfterEnd ==
    \A u \in users, s \in StartDates, e \in EndDates :
      (Restricts(s) /\ Restricts(e) /\ DateNum(s[1]) > DateNum(e[1])) =>
        /\ StatisticsOf(u, s, e).total_income = 0
        /\ StatisticsOf(u, s, e).total_expense = 0
        /\ StatisticsOf(u, s, e).income_by_category = << >>
        /\ StatisticsOf(u, s, e).expense_by_category = << >>
        /\ StatisticsOf(u, s, e).expense_dynamics = << >>
        /\ DynamicsOf(u, s, e) = << >>
        /\ \A c \in DOMAIN categories :
             categories[c].user_id = u =>
               /\ CategoryStatisticsOf(u, c, s, e).total_amount = 0
               /\ CategoryStatisticsOf(u, c, s, e).transaction_count = 0

\* C12 as stated: the analytics endpoints count a transaction if and only if
\* (start_date is absent or transaction_date >= start_date) and (end_date is
\* absent or transaction_date <= end_date); a start_date after the end_date
\* yields an empty report.  An end_date that is the empty string refutes it.
C12_RangeAsStated ==
    AfterWrite => RangeReportsCount(WithinAsStated) /\ EmptyWhenStartAfterEnd

\* C12, amended: the analytics endpoints count a transaction if and only if
\* (start_date is absent or empty or transaction_date >= start_date) and
\* (end_date is absent or empty or transaction_date <= end_date), both ends
\* included; a start_date after the end_date yields an empty report.
C12_InclusiveRange ==
    AfterWrite => RangeReportsCount(Within) /\ EmptyWhenStartAfterEnd

\* the dynamics of a range starting 2024-01-16 have been answered to user 1,
\* who by then has an expense dated 2024-01-10 too: the expense dated exactly
\* start_date is in the series, the earlier one is not
C12_Witness ==
    /\ resp.op = "get_expense_dynamics"
    /\ Len(resp.body.items) = 1
    /\ resp.body.items[1].date = DateStr([y |-> 2024, m |-> 1, d |-> 16])
    /\ resp.body.items[1].amount = 5000
    /\ \E i \in DOMAIN transactions :
         /\ transactions[i].user_id = 1
         /\ transactions[i].type = "expense"
         /\ transactions[i].transaction_date
              = DateStr([y |-> 2024, m |-> 1, d |-> 10])

BreakdownOf(report, type) ==
    IF type = "income" THEN report.income_by_category
    ELSE report.expense_by_category

TotalOf(report, type) ==
    IF type = "income" THEN report.total_income ELSE report.total_expense

TotalAmounts(entries) == [k \in 1..Len(entries) |-> entries[k].total_amount]

\* C13: in the statistics report, for each type every category with at least
\* one transaction of that type in the filtered set appears exactly once in the
\* type's breakdown (and no other category does), with total_amount the sum and
\* transaction_count the number of those transactions; the total_amount values
\* add up to the type's total and the counts to the number of filtered
\* transactions of the type.
C13_BreakdownPerCategory ==
    AfterWrite =>
      \A u \in users, s \in StartDates, e \in EndDates, type \in CategoryTypes :
        LET report == StatisticsOf(u, s, e)
            entries == BreakdownOf(report, type)
            ids == IdsWithin(u, type, s, e)
            cats == {transactions[i].category_id : i \in ids}
        IN  /\ \A c \in cats :
                 Cardinality({k \in 1..Len(entries) :
                                entries[k].category_id = c}) = 1
            /\ \A k \in 1..Len(entries) :
                 LET mine == {i \in ids : transactions[i].category_id
                                            = entries[k].category_id}
                 IN  /\ entries[k].category_id \in cats
                     /\ entries[k].total_amount = SumAmounts(mine)
                     /\ entries[k].transaction_count = Cardinality(mine)
            /\ SeqSum(TotalAmounts(entries)) = TotalOf(report, type)
            /\ SeqSum(Counts(entries)) = Cardinality(ids)

\* a report has been answered in which one expense category holds two
\* transactions (1500 and 5000) and another holds one
C13_Witness ==
    /\ resp.op = "get_financial_statistics"
    /\ Len(resp.body.expense_by_category) = 2
    /\ \E k \in 1..2 :
         /\ resp.body.expense_by_category[k].transaction_count = 2
         /\ resp.body.expense_by_category[k].total_amount = 6500
    /\ resp.body.total_expense = 11500

\* C14: in the statistics report each category entry's percentage is its
\* total_amount divided by the total of its type in the filtered set, times
\* 100, rounded to 2 decimals (here: the nearest hundredth, in hundredths), and
\* is 0 when that total is 0.
C14_PercentageOfTypeTotal ==
    AfterWrite =>
      /\ \A u \in users, s \in StartDates, e \in EndDates,
            type \in CategoryTypes :
           LET report == StatisticsOf(u, s, e)
               entries == BreakdownOf(report, type)
           IN  \A k \in 1..Len(entries) :
                 IF TotalOf(report, type) > 0
                 THEN NearestHundredth(entries[k].percentage,
                                       entries[k].total_amount,
                                       TotalOf(report, type))
                 ELSE entries[k].percentage = 0
      /\ \A g \in {<< [category_id |-> c, amount |-> 0, count |-> 0] >> :
                     c \in DOMAIN categories} :
           \A k \in 1..Len(category_entries(g, 0)) :
             category_entries(g, 0)[k].percentage = 0

\* a report has been answered whose expenses are 5000, 1500 and 1 in three
\* categories: 76.91 %, 23.07 % and 0.02 % of 6501
C14_Witness ==
    /\ resp.op = "get_financial_statistics"
    /\ resp.body.total_expense = 6501
    /\ Len(resp.body.expense_by_category) = 3
    /\ resp.body.expense_by_category[1].percentage = 7691
    /\ resp.body.expense_by_category[2].percentage = 2307
    /\ resp.body.expense_by_category[3].percentage = 2

Percentages(entries) == [k \in 1..Len(entries) |-> entries[k].percentage]

Distance(a, b) == IF a >= b THEN a - b ELSE b - a

\* C15: for each type whose total in the filtered set is > 0, the percentages
\* of the type's breakdown sum to 100 within 0.005 per listed category (half a
\* hundredth each: twice the distance from 100.00 is at most the number of
\* entries, in hundredths).
C15_PercentagesSumTo100 ==
    AfterWrite =>
      \A u \in users, s \in StartDates, e \in EndDates, type \in CategoryTypes :
        LET report == StatisticsOf(u, s, e)
            entries == BreakdownOf(report, type)
        IN  TotalOf(report, type) > 0 =>
              2 * Distance(SeqSum(Percentages(entries)), 10000)
                <= Len(entries)

\* a report has been answered whose two expense categories take 43.48 % and
\* 56.52 % of 11500, beside an income of 50000
C15_Witness ==
    /\ resp.op = "get_financial_statistics"
    /\ resp.body.total_expense = 11500
    /\ resp.body.total_income = 50000
    /\ Len(resp.body.expense_by_category) = 2
    /\ Percentages(resp.body.expense_by_category) = << 5652, 4348 >>

\* C16: income_by_category and expense_by_category of the statistics report
\* are ordered by total_amount, non-increasing.
C16_BreakdownsDescending ==
    AfterWrite =>
      \A u \in users, s \in StartDates, e \in EndDates, type \in CategoryTypes :
        LET entries == BreakdownOf(StatisticsOf(u, s, e), type)
        IN  \A j, k \in 1..Len(entries) :
              j < k => entries[j].total_amount >= entries[k].total_amount

\* a report has been answered in which category 3, whose first transaction is
\* later than category 2's, comes first with 6500 before category 2 with 5000
C16_Witness ==
    /\ resp.op = "get_financial_statistics"
    /\ Len(resp.body.expense_by_category) = 2
    /\ resp.body.expense_by_category[1].category_id = 3
    /\ resp.body.expense_by_category[1].total_amount = 6500
    /\ resp.body.expense_by_category[2].category_id = 2
    /\ resp.body.expense_by_category[2].total_amount = 5000

\* C17: the expense dynamics series, in the statistics report and from the
\* dynamics endpoint alike, has exactly one entry per distinct date on which
\* the caller has an expense in the filtered set, each entry's amount is the
\* sum of that date's expense amounts (incomes never contribute), and the
\* entries are in strictly ascending date order.
C17_DynamicsPerDate ==
    AfterWrite =>
      \A u \in users, s \in StartDates, e \in EndDates :
        \A series \in {StatisticsOf(u, s, e).expense_dynamics,
                       DynamicsOf(u, s, e)} :
          LET ids == IdsWithin(u, "expense", s, e)
              days == {transactions[i].transaction_date : i \in ids}
          IN  /\ \A d \in days :
                   Cardinality({k \in 1..Len(series) : series[k].date = d}) = 1
              /\ \A k \in 1..Len(series) :
                   /\ series[k].date \in days
                   /\ series[k].amount =
                        SumAmounts({i \in ids : transactions[i].transaction_date
                                                  = series[k].date})
              /\ \A j, k \in 1..Len(series) :
                   j < k => DateNum(series[j].date) < DateNum(series[k].date)

\* the dynamics have been answered after an expense dated 2024-01-10 was
\* posted: its date, the last one entered, is the first of the series, and the
\* income of 2024-01-15 is not in it
C17_Witness ==
    /\ resp.op = "get_expense_dynamics"
    /\ resp.body.items =
         << [date |-> DateStr([y |-> 2024, m |-> 1, d |-> 10]),
             amount |-> 5000],
            [date |-> DateStr([y |-> 2024, m |-> 1, d |-> 16]),
             amount |-> 5000],
            [date |-> DateStr([y |-> 2024, m |-> 1, d |-> 17]),
             amount |-> 1500] >>

NoRange == << >>

\* the ids of u's transactions of category c, of whatever type, in the range
CategoryIdsWithin(u, c, start_date, end_date) ==
    {i \in DOMAIN transactions :
       /\ transactions[i].user_id = u
       /\ transactions[i].category_id = c
       /\ Within(transactions[i].transaction_date, start_date, end_date)}

\* the sum of all of u's transactions of category c's type, whatever the dates
SameTypeTotal(u, c) ==
    SumAmounts({i \in DOMAIN transactions :
                  /\ transactions[i].user_id = u
                  /\ transactions[i].type = categories[c].type})

\* the per-category endpoint takes total_amount and transaction_count from the
\* category's transactions in the range and the percentage against all of the
\* caller's transactions of the category's type
CategoryShareAgainstAll(u, c, s, e) ==
    LET one == CategoryStatisticsOf(u, c, s, e)
        mine == CategoryIdsWithin(u, c, s, e)
    IN  /\ get_category_statistics_response(u, c, s, e).status = 200
        /\ one.total_amount = SumAmounts(mine)
        /\ one.transaction_count = Cardinality(mine)
        /\ IF SameTypeTotal(u, c) > 0
           THEN NearestHundredth(one.percentage, one.total_amount,
                                 SameTypeTotal(u, c))
           ELSE one.percentage = 0

ExcludesSome(u, c, s, e) ==
    CategoryIdsWithin(u, c, s, e) # CategoryIdsWithin(u, c, NoRange, NoRange)

\* C18 as stated: total_amount and transaction_count come from the category's
\* transactions in the range, the percentage is taken against all of the
\* caller's transactions of the category's type, and with a date filter that
\* excludes some of the category's transactions the percentage is lower than
\* the category's unfiltered share.
C18_FilteredShareLower ==
    AfterWrite =>
      \A u \in users, c \in DOMAIN categories, s \in StartDates, e \in EndDates :
        categories[c].user_id = u =>
          /\ CategoryShareAgainstAll(u, c, s, e)
          /\ ExcludesSome(u, c, s, e) =>
               CategoryStatisticsOf(u, c, s, e).percentage
                 < CategoryStatisticsOf(u, c, NoRange, NoRange).percentage

\* C18, amended: as above, but with a date filter that excludes some of the
\* category's transactions the percentage is not higher than the one reported
\* without a filter; it is the same when the excluded amount is too small to
\* change the rounded value or when the type's total is 0.
C18_FilteredShareNotHigher ==
    AfterWrite =>
      \A u \in users, c \in DOMAIN categories, s \in StartDates, e \in EndDates :
        categories[c].user_id = u =>
          /\ CategoryShareAgainstAll(u, c, s, e)
          /\ ExcludesSome(u, c, s, e) =>
               CategoryStatisticsOf(u, c, s, e).percentage
                 <= CategoryStatisticsOf(u, c, NoRange, NoRange).percentage

\* the statistics of category 1 have been answered for a range that leaves out
\* its income of 1: 50000 of 50001, reported as 100.0 %
C18_Witness ==
    /\ resp.op = "get_category_statistics"
    /\ resp.status = 200
    /\ resp.body.category_id = 1
    /\ resp.body.total_amount = 50000
    /\ resp.body.transaction_count = 1
    /\ resp.body.percentage = 10000
    /\ SameTypeTotal(1, 1) = 50001
    /\ Cardinality(CategoryIdsWithin(1, 1, NoRange, NoRange)) = 2

(***************************************************************************)
(* Properties of the access by id.                                         *)
(***************************************************************************)
\* what the sentence demands of the step that answers a request of user u
\* naming id in table: 403 and an untouched store for another user's entity,
\* 404 for an id that is not there
Refused(table, id, u) ==
    /\ (id \in DOMAIN table /\ table[id].user_id # u) =>
         (resp'.status = 403 /\ store' = store)
    /\ id \notin DOMAIN table => resp'.status = 404

TransactionAccessRefused(u) ==
    \A t \in RequestIds(transactions) :
      (get_transaction(u, t) \/ delete_transaction_by_id(u, t))
        => Refused(transactions, t, u)

\* requests with a body are taken with a body that passes validation
CategoryAccessRefused(u) ==
    \A c \in RequestIds(categories) :
      (\/ get_category_by_id_endpoint(u, c)
       \/ \E upd \in CategoryUpdates : update_category_by_id(u, c, upd)
       \/ delete_category_by_id(u, c)
       \/ \E s \in StartDates, e \in EndDates :
            get_category_statistics(u, c, s, e)
       \/ \E d \in AnalyticsInputs : add_income(u, c, d) \/ add_expense(u, c, d)
       \/ \E l \in Limits, p \in Periods :
            l > 0 /\ create_new_budget(u, c, l, p))
        => Refused(categories, c, u)

BudgetAccessRefused(u) ==
    \A b \in RequestIds(budgets) :
      (get_budget_by_id(u, b) \/ delete_budget_by_id(u, b))
        => Refused(budgets, b, u)

GoalAccessRefused(u) ==
    \A g \in RequestIds(goals) :
      (\/ get_goal_by_id_endpoint(u, g)
       \/ \E a \in ContributionAmounts :
            GoalContributeValid(a) /\ contribute_to_financial_goal(u, g, a)
       \/ \E upd \in GoalUpdates : update_financial_goal(u, g, upd)
       \/ delete_financial_goal(u, g))
        => Refused(goals, g, u)

\* C19: for transactions, categories, budgets and goals and for every by-id
\* operation (get, update, delete, contribute, category statistics, use of a
\* category in a new transaction or budget), a request naming an entity of
\* another user is answered 403 and changes nothing in the store, and a
\* request naming an id that does not exist is answered 404.
C19_ForeignIs403MissingIs404 ==
    [][\A u \in users :
         /\ TransactionAccessRefused(u)
         /\ CategoryAccessRefused(u)
         /\ BudgetAccessRefused(u)
         /\ GoalAccessRefused(u)]_vars

\* a budget was asked for and the answer was 404, in a store where user 2
\* asking for user 1's budget 1 is answered so
C19_Witness ==
    /\ resp.op = "get_budget_by_id"
    /\ resp.status = 404
    /\ 1 \in DOMAIN budgets
    /\ budgets[1].user_id = 1
    /\ resp = get_budget_by_id_response(2, 1)

(***************************************************************************)
(* Properties of the two endpoints that post a transaction.                *)
(***************************************************************************)
\* what is demanded of a step of a posting endpoint that wants one type: a
\* body of the other type creates nothing and is refused, with 400 when the
\* category named is the caller's own; a transaction that is created is the
\* only new row and has the wanted type
PostedTypeChecked(wanted, u, c, d) ==
    /\ d.type # wanted =>
         /\ transactions' = transactions
         /\ resp'.status >= 400
         /\ (c \in DOMAIN categories /\ categories[c].user_id = u)
              => resp'.status = 400
    /\ transactions' # transactions =>
         /\ resp'.status = 201
         /\ DOMAIN transactions' = DOMAIN transactions \cup {resp'.body.id}
         /\ resp'.body.id \notin DOMAIN transactions
         /\ transactions'[resp'.body.id].type = wanted
         /\ \A t \in DOMAIN transactions : transactions'[t] = transactions[t]

IsYearMonth(period) ==
    /\ Len(period) = 7
    /\ period[5] = "-"
    /\ \A k \in {1, 2, 3, 4, 6, 7} : period[k] \in Digits

\* C21: creating a budget (for a category of the caller's own, with a valid
\* limit) with a period that is not of the form YYYY-MM, or with a category
\* that is not an expense category, is rejected with 400 and no budget is
\* stored; every stored budget has a period of the form YYYY-MM.
C21_PeriodsAreYearMonth ==
    /\ [](\A b \in DOMAIN budgets : IsYearMonth(budgets[b].period))
    /\ [][\A u \in users, c \in DOMAIN categories, l \in Limits,
             p \in BudgetPeriods :
             (/\ create_new_budget(u, c, l, p)
              /\ l > 0
              /\ categories[c].user_id = u
              /\ (~IsYearMonth(p) \/ categories[c].type # "expense"))
               => (resp'.status = 400 /\ budgets' = budgets)]_vars

\* a budget was just created and its stored period is not of the form YYYY-MM
C21_Witness ==
    /\ resp.op = "create_new_budget"
    /\ resp.status = 201
    /\ ~IsYearMonth(budgets[resp.body.id].period)

(***************************************************************************)
(* Properties of the deletion of an account.                               *)
(***************************************************************************)
\* table after is table before without the rows of user u
OnlyRowsOfUserGone(before, after, u) ==
    /\ DOMAIN after = {i \in DOMAIN before : before[i].user_id # u}
    /\ \A i \in DOMAIN after : after[i] = before[i]

\* C22: after a user is deleted no category, transaction, budget or goal with
\* that user's id remains in the store, and the entities of every other user
\* (and the other users themselves) are unchanged.
C22_UserDeletionCascades ==
    [][\A u \in users :
         delete_current_user(u) =>
           /\ users' = users \ {u}
           /\ OnlyRowsOfUserGone(categories, categories', u)
           /\ OnlyRowsOfUserGone(transactions, transactions', u)
           /\ OnlyRowsOfUserGone(budgets, budgets', u)
           /\ OnlyRowsOfUserGone(goals, goals', u)]_vars

\* user 2, who had a category and a transaction, has just been deleted as the
\* second write; user 1's rows are there
C22_Witness ==
    /\ resp.op = "delete_current_user"
    /\ users = {1}
    /\ DOMAIN categories = {1, 2, 3}
    /\ DOMAIN transactions = {1, 2, 3}
    /\ DOMAIN budgets = {1}
    /\ DOMAIN goals = {1}
    /\ writes = 2

(***************************************************************************)
(* Properties of the whole store.                                          *)
(***************************************************************************)
\* C23: a stored transaction is immutable: whatever the operation, a
\* transaction that is in the store before and after it has the same user_id,
\* category_id, amount, type and transaction_date; it leaves the store only
\* by its own deletion or with its category or its user.
C23_TransactionsImmutable ==
    [][\A t \in DOMAIN transactions :
         IF t \in DOMAIN transactions'
         THEN transactions'[t] = transactions[t]
         ELSE \/ resp'.op = "delete_transaction_by_id"
              \/ /\ resp'.op = "delete_category_by_id"
                 /\ transactions[t].category_id \notin DOMAIN categories'
              \/ /\ resp'.op = "delete_current_user"
                 /\ transactions[t].user_id \notin users']_vars

\* the type of category 2 was just changed to income, and its seeded expense
\* of 5000 is as it was
C23_Witness ==
    /\ resp.op = "update_category_by_id"
    /\ resp.status = 200
    /\ categories[2].type = "income"
    /\ transactions[2] =
         [user_id |-> 1, category_id |-> 2, amount |-> 5000,
          type |-> "expense",
          transaction_date |-> DateStr([y |-> 2024, m |-> 1, d |-> 16])]

\* the operations that answer a query of one of the three calculators
QueryOps ==
    {"get_budget_status", "get_budget_by_id", "get_goals_progress",
     "get_goal_by_id_endpoint", "get_financial_statistics",
     "get_expense_dynamics", "get_category_statistics", "get_summary"}

\* C24: budget status queries, goal progress queries and the analytics
\* queries (statistics, expense dynamics, category statistics, summary) leave
\* the whole record store unchanged; of the calculation paths only a goal
\* contribution, when it succeeds, modifies stored data (the goals, and
\* nothing else).
C24_QueriesLeaveStore ==
    [][/\ resp'.op \in QueryOps => store' = store
       /\ (resp'.op = "contribute_to_financial_goal" /\ resp'.status = 200)
            => (/\ goals' # goals
                /\ UNCHANGED << users, categories, transactions,
                                budgets >>)]_vars

\* the budget statuses have been answered after the only expense of the
\* budget's category was deleted; the budget is still stored
C24_Witness ==
    /\ resp.op = "get_budget_status"
    /\ Len(resp.body.items) = 1
    /\ resp.body.items[1].spent_amount = 0
    /\ 1 \in DOMAIN budgets
    /\ 2 \notin DOMAIN transactions

(***************************************************************************)
(* Concurrent contributions.                                               *)
(***************************************************************************)
\* process v has committed a contribution to the goal process w is about to
\* commit to, and both loaded the same current_amount
ReadTheSame(w, v) ==
    /\ sessions[w].phase = "loaded"
    /\ sessions[v].phase \in {"committed", "closed"}
    /\ sessions[v].goal_id = sessions[w].goal_id
    /\ sessions[v].loaded = sessions[w].loaded

\* C25: a contribution is a read-modify-write without a lock: when two
\* processes have read the same current_amount of a goal, the commit of the
\* later one stores that amount plus its own contribution, and the
\* contribution the other one committed is lost
C25_LastWriteWins ==
    [][\A w \in Workers : \A v \in Workers \ {w} :
          (ReadTheSame(w, v) /\ sessions'[w].phase = "committed")
              => /\ goals'[sessions[w].goal_id].current_amount =
                       sessions[w].loaded + sessions[w].amount
                 /\ goals'[sessions[w].goal_id].current_amount #
                       sessions[w].loaded + sessions[w].amount
                           + sessions[v].amount]_vars

\* both processes have answered their contribution to goal 1, 25000 and 40
\* on top of the same 0, and the goal holds 40
C25_Witness ==
    /\ sessions["w1"] = [phase |-> "closed", goal_id |-> 1, amount |-> 25000,
                         loaded |-> 0]
    /\ sessions["w2"] = [phase |-> "closed", goal_id |-> 1, amount |-> 40,
                         loaded |-> 0]
    /\ writes = 2
    /\ goals[1].current_amount = 40
    /\ resp.op = "contribute_to_financial_goal"
    /\ resp.status = 200

(***************************************************************************)
(* Referential integrity.                                                  *)
(***************************************************************************)
\* the row references a category that is stored and has the row's owner
CategoryOfOwner(row) ==
    /\ row.category_id \in DOMAIN categories
    /\ categories[row.category_id].user_id = row.user_id

\* C26: every stored transaction and every stored budget references a
\* category that exists and belongs to the user the transaction or budget
\* belongs to
C26_ReferentialIntegrity ==
    /\ \A t \in DOMAIN transactions : CategoryOfOwner(transactions[t])
    /\ \A b \in DOMAIN budgets : CategoryOfOwner(budgets[b])

\* user 1 has just deleted Groceries; the expense and the budget that
\* referenced it went with it, the other transactions stay
C26_Witness ==
    /\ resp.op = "delete_category_by_id"
    /\ resp.status = 200
    /\ 2 \notin DOMAIN categories
    /\ DOMAIN transactions = {1, 3, 4}
    /\ DOMAIN budgets = {}

(***************************************************************************)
(* Transaction types and category types.                                   *)
(***************************************************************************)
\* C27: every stored transaction has the type of the category it
\* references: income transactions in income categories, expense
\* transactions in expense categories
C27_TypeMatchesCategory ==
    \A t \in DOMAIN transactions :
        /\ transactions[t].category_id \in DOMAIN categories
        /\ transactions[t].type =
              categories[transactions[t].category_id].type

\* an income has just been stored in a category of type expense
C27_Witness ==
    /\ resp.op = "add_income"
    /\ resp.status = 201
    /\ transactions[resp.body.id].type = "income"
    /\ categories[transactions[resp.body.id].category_id].type = "expense"

\* C28: the percentage in the answer of the per-category statistics lies
\* between 0 and 100 (in hundredths: between 0 and 10000)
C28_CategoryShareWithin100 ==
    (resp.op = "get_category_statistics" /\ resp.status = 200)
        => (resp.body.percentage >= 0 /\ resp.body.percentage <= 10000)

\* the statistics of a category answer with a share above 100 percent
C28_Witness ==
    /\ resp.op = "get_category_statistics"
    /\ resp.status = 200
    /\ resp.body.percentage > 10000
    /\ \E t \in DOMAIN transactions :
          /\ transactions[t].category_id = resp.body.category_id
          /\ transactions[t].type # categories[resp.body.category_id].type

(***************************************************************************)
(* Isolation of the users.                                                 *)
(***************************************************************************)
\* the step is a write request of user b, granted or refused
WrittenBy(b) ==
    \/ delete_current_user(b)
    \/ \E n \in CategoryNames, t \in CategoryTypes :
          create_new_category(b, n, t)
    \/ \E c \in RequestIds(categories), upd \in CategoryUpdates :
          update_category_by_id(b, c, upd)
    \/ \E c \in RequestIds(categories) : delete_category_by_id(b, c)
    \/ \E c \in RequestIds(categories), d \in StoreInputs : add_income(b, c, d)
    \/ \E c \in RequestIds(categories), d \in StoreInputs : add_expense(b, c, d)
    \/ \E t \in RequestIds(transactions) : delete_transaction_by_id(b, t)
    \/ \E c \in RequestIds(categories), p \in Periods :
          create_new_budget(b, c, 30000, p)
    \/ \E i \in RequestIds(budgets) : delete_budget_by_id(b, i)
    \/ \E n \in GoalNames, d \in GoalDates :
          create_financial_goal(b, n, 30000, d)
    \/ \E g \in RequestIds(goals) : contribute_to_financial_goal(b, g, 25000)
    \/ \E g \in RequestIds(goals) : delete_financial_goal(b, g)

\* what the queries that name no id answer to user a from the given tables
ListResults(cats, txs, buds, gls, a) ==
    << budget_status_of(cats, txs, buds, a),
       goals_progress_of(gls, a),
       summary_of(txs, a),
       [s \in StartDates |->
           [e \in EndDates |-> financial_statistics_of(cats, txs, a, s, e)]],
       [s \in StartDates |->
           [e \in EndDates |-> expense_dynamics_of(txs, a, s, e)]] >>

\* the step leaves what user a is answered about category c as it was
SameCategoryStatistics(a, c) ==
    \A s \in StartDates, e \in EndDates :
        category_statistics_of(categories', transactions', a, c, s, e)
            = category_statistics_of(categories, transactions, a, c, s, e)

\* the step leaves what user a is answered about goal g as it was
SameGoal(a, g) == goal_by_id_of(goals', a, g) = goal_by_id_of(goals, a, g)

\* the step leaves what user a is answered about budget i as it was
SameBudget(a, i) ==
    budget_by_id_of(categories', transactions', budgets', a, i)
        = budget_by_id_of(categories, transactions, budgets, a, i)

\* the step leaves the answers to the queries of user a that name no id
SameLists(a) ==
    ListResults(categories', transactions', budgets', goals', a)
        = ListResults(categories, transactions, budgets, goals, a)

\* after the step user a is still refused the statistics of category c and
\* goal g, with 404 or with 403
StillRefused(a, c, g) ==
    /\ category_statistics_of(categories', transactions', a, c, << >>,
                              << >>).status \in {403, 404}
    /\ goal_by_id_of(goals', a, g).status \in {403, 404}

OwnIds(table, a) == {i \in DOMAIN table : table[i].user_id = a}

\* C29 as stated: no write request of another user b changes anything user a
\* is answered by the budget status, goal progress and analytics queries,
\* whatever id the query names
C29_NoResultChanges ==
    [][store' # store =>
         \A b \in users : WrittenBy(b) =>
            \A a \in users \ {b} :
               /\ SameLists(a)
               /\ \A i \in RequestIds(budgets) : SameBudget(a, i)
               /\ \A c \in RequestIds(categories) : SameCategoryStatistics(a, c)
               /\ \A g \in RequestIds(goals) : SameGoal(a, g)]_vars

\* C29: no write request of another user b changes what user a is answered
\* by the queries that name no id, by the budget query, and by the category
\* statistics and the goal query for a category or goal of a's own; for an id
\* that is not a's own these two keep refusing, with 404 or 403
C29_OwnResultsUnchanged ==
    [][store' # store =>
         \A b \in users : WrittenBy(b) =>
            \A a \in users \ {b} :
               /\ SameLists(a)
               /\ \A i \in RequestIds(budgets) : SameBudget(a, i)
               /\ \A c \in OwnIds(categories, a) : SameCategoryStatistics(a, c)
               /\ \A g \in OwnIds(goals, a) : SameGoal(a, g)
               /\ \A c \in RequestIds(categories) \ OwnIds(categories, a),
                     g \in RequestIds(goals) \ OwnIds(goals, a) :
                     StillRefused(a, c, g)]_vars

\* user 2 has just created a goal, which got id 2: user 1's progress list
\* still holds goal 1 alone, and a query of user 1 for goal 2, answered 404
\* before, is answered 403
C29_Witness ==
    /\ resp.op = "create_financial_goal"
    /\ resp.status = 201
    /\ resp.body.user_id = 2
    /\ resp.body.id = 2
    /\ Len(goals_progress_of(goals, 1).body.items) = 1
    /\ goals_progress_of(goals, 1).body.items[1].id = 1
    /\ goal_by_id_of(goals, 1, 2).status = 403

(***************************************************************************)
(* Goal updates.                                                           *)
(***************************************************************************)
\* C30: once an update of a goal has been answered 200, a get of the same
\* goal by its owner returns what the update answered: the updated name,
\* target_amount and target_date, and the progress_percentage and
\* remaining_amount computed against the updated target_amount
C30_UpdateIsDurable ==
    (resp.op = "update_financial_goal" /\ resp.status = 200)
        => goal_by_id_of(goals, resp.body.user_id, resp.body.id).body
              = resp.body

\* an update of goal 1 was answered 200 with the name Boat and the target
\* 50000; the stored goal is still Vacation with target 100000, and that is
\* what a get returns
C30_Witness ==
    /\ resp.op = "update_financial_goal"
    /\ resp.status = 200
    /\ resp.body.id = 1
    /\ resp.body.name = "Boat"
    /\ resp.body.target_amount = 50000
    /\ goals[1].name = "Vacation"
    /\ goals[1].target_amount = 100000
    /\ goal_by_id_of(goals, 1, 1).body.name = "Vacation"
    /\ goal_by_id_of(goals, 1, 1).body.remaining_amount
          # resp.body.remaining_amount

=============================================================================
